---- MODULE Spec2Model ----
(***************************************************************************)
(* Verification model of capit: the single-instance lock of capitd         *)
(* (daemon/instance_lock.rs), the daemon's accept/request loop             *)
(* (daemon/server.rs, daemon/handlers.rs, selection.rs) and the IPC        *)
(* client (capit-ipc/src/client.rs).                                       *)
(*                                                                         *)
(* The specifications of the module:                                       *)
(*   SpecLock      processes racing on InstanceLock::acquire_for_socket    *)
(*   Spec          the daemon serving raw protocol peers                   *)
(*   SpecClient    one IpcClient against an arbitrary peer                 *)
(*   SpecStartup   capitd processes started on one socket path             *)
(*   SpecSelection a SelectionState driven through its methods             *)
(*   SpecDispatch  handle_request, the reply of run() and start_capture    *)
(*   SpecFraming   write_frame / read_frame on one byte stream             *)
(*   SpecCodec     messages serialised and deserialised                      *)
(*   SpecGeometry  clamp_to, hit_test and apply_drag of the region overlay   *)
(*   SpecOverlay   the event loop of the region overlay                      *)
(***************************************************************************)
EXTENDS Integers, Sequences, FiniteSets, TLC

\* ------------------------------------------------------------------------
\* Bounds
\* ------------------------------------------------------------------------
\* number of processes that may run acquire_for_socket on the socket path
NumProcs == 3
\* number of peers that connect to the daemon
NumClients == 2
\* frames the peers write on their connections
MaxSends == 3
\* frames the peer of an IpcClient writes on the connection
MaxWire == 4
\* operations (call / next_event) the owner of an IpcClient starts
MaxOps == 3
\* method calls made on one SelectionState
MaxSelOps == 5
\* requests dispatched one after the other by handle_request
MaxReqs == 2
\* length of a frame payload, and frames written on one stream
MaxPayload == 1
MaxFrames == 2
\* messages serialised in one run
MaxMsgs == 2
\* events dispatched to the App of the region overlay
MaxEvents == 5

VARIABLES
    \* ---- instance lock (daemon/instance_lock.rs) ----
    lockFile,     \* the file at lock_path: NoFile or [inode, content]
    lpc,          \* per process: position inside acquire_for_socket / life cycle
    lread,        \* per process: pid parsed by is_lock_stale from the file
    lres,         \* per process: result of acquire_for_socket
    lfound,       \* per process: what the staleness check of the call found
    lcreate,      \* per process: how create_new ended ("none" before it ran)
    ldeadAtStart, \* per process: processes already crashed when the call began
    \* ---- daemon (daemon/server.rs run, daemon/handlers.rs) ----
    dpc,          \* position of run(): start, accept, hello, loop, handling, exited
    dexit,        \* where run() returned: [at, result, err]
    shutdown_flag,\* the AtomicBool set by the session watcher
    outputs,      \* state.outputs
    active_job,   \* state.active_job
    selection,    \* SelectionState.active of the connection being served
    conn,         \* the accepted connection (peer id), 0 when none
    cur_req,      \* the request last read from conn by the request loop
    first,        \* the first message read from conn
    sent,         \* frames written on conn since the last frame was read from it
    notified,     \* desktop notifications raised for cur_req
    backlog,      \* connections waiting in the listener's queue
    pst,          \* per peer: idle, open, closed
    c2s,          \* per peer: frames written by the peer and not yet read
    nsent,        \* number of frames the peers have written so far
    \* ---- IPC client (capit-ipc/src/client.rs) ----
    pending_events, \* IpcClient.pending_events
    stream,       \* frames written by the peer and not yet read by the client
    wireLog,      \* every frame the peer wrote on the connection, in order
    nread,        \* number of frames of wireLog the client has read
    cpc,          \* idle, call, next_event, failed
    peerOpen,     \* the peer has not closed the stream
    reqWritten,   \* number of request frames the client wrote
    callStart,    \* nread, pending_events and reqWritten when call was entered
    lastResp,     \* the Response the last call returned
    delivered,    \* the events next_event returned, in order
    nops,         \* operations started so far
    \* ---- daemon start-up (daemon/server.rs run, lines 64-153) ----
    sockFile,     \* the socket file at the socket path: 0 or the pid that bound it
    rpc,          \* per process: position of run() once the lock is acquired
    servingAtStart, \* per process: the daemons serving since the process started
    \* ---- SelectionState (selection.rs) ----
    sel_active,   \* SelectionState.active
    sel_log,      \* the method calls made so far, in order
    sel_resp,     \* what the last handle_request returned
    sel_events,   \* the events the last handle_request emitted
    sel_taken,    \* what the last take_active returned
    \* ---- dispatch (daemon/handlers.rs, capit-bar/src/capture.rs) ----
    h_outs,       \* state.outputs
    h_sel,        \* the SelectionState passed to handle_request
    h_job,        \* state.active_job
    h_req,        \* the request being dispatched
    h_res,        \* what handle_request did for h_req
    h_wire,       \* the frames written on the connection for h_req, in order
    h_pc,         \* ready, handled, answered, returned
    h_n,          \* requests dispatched so far
    b_out,        \* what start_capture returned to its caller
    \* ---- framing (capit-ipc/src/framing.rs) ----
    f_stream,     \* bytes written on the stream and not yet read
    f_written,    \* payloads passed to write_frame, in order
    f_read,       \* payloads returned by read_frame, in order
    f_last,       \* result of the last write_frame / read_frame
    f_eof,        \* the writing end of the stream is closed
    \* ---- message encoding (capit-ipc/src/protocol.rs) ----
    c_msg,        \* the value passed to postcard::to_allocvec
    c_bytes,      \* the bytes it produced
    c_dec,        \* what postcard::from_bytes made of them
    c_n,          \* messages encoded so far
    \* ---- region overlay geometry (capitd/src/overlay_region/model.rs) ----
    g_rect,       \* the selection: the rectangle the functions are applied to
    g_bounds,     \* the desktop bounds
    g_last,       \* the last call: its arguments and what it returned
    \* ---- region overlay event loop (capitd/src/overlay_region/app.rs, run.rs) ----
    o_app,        \* the App: selection, cursor, drag, pending_redraw, result, surfaces
    o_pc,         \* run_region_overlay: dispatch (inside blocking_dispatch), exited
    o_batch,      \* 1 once the current blocking_dispatch call has dispatched an event
    o_held,       \* the buffers committed to the compositor and not yet released
    o_last,       \* the event dispatched last, and pending_redraw before it
    o_out,        \* what run_region_overlay returned
    o_n           \* events dispatched so far

lockVars == <<lockFile, lpc, lread, lres, lfound, lcreate, ldeadAtStart>>
daemonVars == <<dpc, dexit, shutdown_flag, outputs, active_job, selection, conn,
                cur_req, first, sent, notified, backlog, pst, c2s, nsent>>
clientVars == <<pending_events, stream, wireLog, nread, cpc, peerOpen,
                reqWritten, callStart, lastResp, delivered, nops>>

startVars == <<sockFile, rpc, servingAtStart>>
selVars == <<sel_active, sel_log, sel_resp, sel_events, sel_taken>>
dispatchVars == <<h_outs, h_sel, h_job, h_req, h_res, h_wire, h_pc, h_n, b_out>>
frameVars == <<f_stream, f_written, f_read, f_last, f_eof>>
codecVars == <<c_msg, c_bytes, c_dec, c_n>>
geoVars == <<g_rect, g_bounds, g_last>>
overlayVars == <<o_app, o_pc, o_batch, o_held, o_last, o_out, o_n>>
moreVars == <<codecVars, geoVars, overlayVars>>
unitVars == <<startVars, selVars, dispatchVars, frameVars, moreVars>>

vars == <<lockVars, daemonVars, clientVars, unitVars>>

\* ========================================================================
\* Instance lock
\* ========================================================================
Pids == 1..NumProcs

NoFile == [exists |-> FALSE]
NoPid == 0

\* a freshly created (still empty) lock file created by process p
NewLockFile(p) == [exists |-> TRUE, inode |-> p, content |-> NoPid]

\* /proc/<pid> exists: the process has been started and has neither exited
\* nor crashed
ProcExists(pid) == pid \in Pids /\ lpc[pid] \notin {"idle", "exited", "crashed"}

\* a process holds an InstanceLock value (acquire_for_socket returned Ok and
\* the value has not been dropped)
Holds(p) == lpc[p] = "held"

LockInit ==
    /\ lockFile = NoFile
    /\ lpc = [p \in Pids |-> "idle"]
    /\ lread = [p \in Pids |-> NoPid]
    /\ lres = [p \in Pids |-> "none"]
    /\ lfound = [p \in Pids |-> "none"]
    /\ lcreate = [p \in Pids |-> "none"]
    /\ ldeadAtStart = [p \in Pids |-> {}]

\* is_lock_stale, first half: the pid parsed from the content of the file
\* (NoPid when no "pid=<N>" line parses)
ParsePid(content) == content

\* is_lock_stale, second half: the lock is stale iff /proc/<pid> is missing
IsStale(pid) == ~ProcExists(pid)

\* a slip that reports every failed create as AlreadyRunning
CreateResultAllRunning(outcome) ==
    IF outcome = "created" THEN "Ok" ELSE "AlreadyRunning"

\* mapping of the outcome of OpenOptions::create_new to the result of
\* acquire_for_socket; outcome is "created", "AlreadyExists" or "other"
CreateResult(outcome) ==
    CASE outcome = "created" -> "Ok"
      [] outcome = "AlreadyExists" -> "AlreadyRunning"
      [] OTHER -> "Io"

\* the outcomes create_new can have given the file system state
CreateOutcomes(file) ==
    IF file.exists THEN {"AlreadyExists", "other"} ELSE {"created", "other"}

\* a process starts and enters acquire_for_socket
StartAcquire(p) ==
    /\ lpc[p] = "idle"
    /\ lpc' = [lpc EXCEPT ![p] = "check"]
    /\ ldeadAtStart' = [ldeadAtStart EXCEPT ![p] = {q \in Pids : lpc[q] = "crashed"}]
    /\ UNCHANGED <<lockFile, lread, lres, lfound, lcreate>>
    /\ UNCHANGED <<daemonVars, clientVars, unitVars>>

\* lock_path.exists() && is_lock_stale: open and read the file
StaleRead(p) ==
    /\ lpc[p] = "check"
    /\ IF ~lockFile.exists
       THEN /\ lpc' = [lpc EXCEPT ![p] = "create"]
            /\ lfound' = [lfound EXCEPT ![p] = "absent"]
            /\ UNCHANGED lread
       ELSE LET pid == ParsePid(lockFile.content) IN
            IF pid = NoPid
            THEN /\ lpc' = [lpc EXCEPT ![p] = "create"]
                 /\ lfound' = [lfound EXCEPT ![p] = "unparsable"]
                 /\ UNCHANGED lread
            ELSE /\ lpc' = [lpc EXCEPT ![p] = "proc"]
                 /\ lread' = [lread EXCEPT ![p] = pid]
                 /\ UNCHANGED lfound
    /\ UNCHANGED <<lockFile, lres, lcreate, ldeadAtStart>>
    /\ UNCHANGED <<daemonVars, clientVars, unitVars>>

\* is_lock_stale: the /proc/<pid> test
StaleProc(p) ==
    /\ lpc[p] = "proc"
    /\ IF IsStale(lread[p])
       THEN /\ lpc' = [lpc EXCEPT ![p] = "remove"]
            /\ lfound' = [lfound EXCEPT ![p] = "stale"]
       ELSE /\ lpc' = [lpc EXCEPT ![p] = "create"]
            /\ lfound' = [lfound EXCEPT ![p] = "live"]
    /\ UNCHANGED <<lockFile, lread, lres, lcreate, ldeadAtStart>>
    /\ UNCHANGED <<daemonVars, clientVars, unitVars>>

\* let _ = fs::remove_file(&lock_path)
RemoveStale(p) ==
    /\ lpc[p] = "remove"
    /\ lockFile' = NoFile
    /\ lpc' = [lpc EXCEPT ![p] = "create"]
    /\ UNCHANGED <<lread, lres, lfound, lcreate, ldeadAtStart>>
    /\ UNCHANGED <<daemonVars, clientVars, unitVars>>

\* OpenOptions::new().write(true).create_new(true).open(&lock_path)
CreateNew(p) ==
    /\ lpc[p] = "create"
    /\ \E outcome \in CreateOutcomes(lockFile) :
         LET r == CreateResult(outcome) IN
         /\ lcreate' = [lcreate EXCEPT ![p] = outcome]
         /\ IF r = "Ok"
            THEN /\ lockFile' = NewLockFile(p)
                 /\ lpc' = [lpc EXCEPT ![p] = "write_pid"]
                 /\ UNCHANGED lres
            ELSE /\ lres' = [lres EXCEPT ![p] = r]
                 /\ lpc' = [lpc EXCEPT ![p] = "exited"]
                 /\ UNCHANGED lockFile
    /\ UNCHANGED <<lread, lfound, ldeadAtStart>>
    /\ UNCHANGED <<daemonVars, clientVars, unitVars>>

\* let _ = writeln!(file, "pid={pid}"); Ok(Self { path, file })
\* the write goes to the file the process created, which is the file at
\* lock_path only while nobody has removed it
WritePid(p) ==
    /\ lpc[p] = "write_pid"
    /\ lockFile' = IF lockFile.exists /\ lockFile.inode = p
                   THEN [lockFile EXCEPT !.content = p]
                   ELSE lockFile
    /\ lpc' = [lpc EXCEPT ![p] = "held"]
    /\ lres' = [lres EXCEPT ![p] = "Ok"]
    /\ UNCHANGED <<lread, lfound, lcreate, ldeadAtStart>>
    /\ UNCHANGED <<daemonVars, clientVars, unitVars>>

\* impl Drop for InstanceLock: remove whatever is at lock_path
DropLock(p) ==
    /\ lpc[p] = "held"
    /\ lockFile' = NoFile
    /\ lpc' = [lpc EXCEPT ![p] = "exited"]
    /\ UNCHANGED <<lread, lres, lfound, lcreate, ldeadAtStart>>
    /\ UNCHANGED <<daemonVars, clientVars, unitVars>>

\* the process dies without running Drop
Crash(p) ==
    /\ lpc[p] \notin {"idle", "exited", "crashed"}
    /\ lpc' = [lpc EXCEPT ![p] = "crashed"]
    /\ UNCHANGED <<lockFile, lread, lres, lfound, lcreate, ldeadAtStart>>
    /\ UNCHANGED <<daemonVars, clientVars, unitVars>>

NextLock ==
    \/ \E p \in Pids : StartAcquire(p)
    \/ \E p \in Pids : StaleRead(p)
    \/ \E p \in Pids : StaleProc(p)
    \/ \E p \in Pids : RemoveStale(p)
    \/ \E p \in Pids : CreateNew(p)
    \/ \E p \in Pids : WritePid(p)
    \/ \E p \in Pids : DropLock(p)
    \/ \E p \in Pids : Crash(p)


\* ========================================================================
\* Wire protocol (capit-ipc/src/protocol.rs, capit-core)
\* ========================================================================
IPC_VERSION == 3

\* capit_core::Mode
Modes == {"Region", "Screen", "Window", "Record"}

\* Option<capit_core::Target>; OutputIndex and ActiveWindow are the targets
\* the handlers treat as "other"
NoTarget == [k |-> "None", name |-> ""]
AllScreens == [k |-> "AllScreens", name |-> ""]
OutputName(n) == [k |-> "OutputName", name |-> n]
OutputIndex == [k |-> "OutputIndex", name |-> ""]
TargetNames == {"DP-1", "X-9"}
Targets == {NoTarget, AllScreens, OutputIndex} \cup {OutputName(n) : n \in TargetNames}

\* capit_core::Rect values used by the model
Rects == {"r1", "r2"}

\* versions a peer may put in Hello
Versions == {2, 3}

\* capit_ipc::Request
Hello(v) == [t |-> "Hello", version |-> v]
StartCapture(m, tg, ui) == [t |-> "StartCapture", mode |-> m, target |-> tg, with_ui |-> ui]
SetSelection(r) == [t |-> "SetSelection", rect |-> r]
Plain(t) == [t |-> t]
Requests ==
    {Hello(v) : v \in Versions}
    \cup {Plain(t) : t \in {"ListOutputs", "GetUiConfig", "ConfirmSelection", "Cancel", "Status"}}
    \cup {StartCapture(m, tg, ui) : m \in Modes, tg \in Targets, ui \in BOOLEAN}
    \cup {SetSelection(r) : r \in Rects}

\* a frame whose payload does not decode as a Request
Garbage == [t |-> "Garbage"]
NoReq == [t |-> "NoReq"]

\* capit_ipc::Response
RespOk == [t |-> "Ok"]
RespError(m) == [t |-> "Error", message |-> m]
RespOutputs(o) == [t |-> "Outputs", outputs |-> o]
RespUiConfig == [t |-> "UiConfig"]
RespStatus(job) == [t |-> "Status", running |-> TRUE, active_job |-> job]

\* capit_ipc::Event
CaptureStarted(m) == [t |-> "CaptureStarted", mode |-> m]
CaptureFinished(p) == [t |-> "CaptureFinished", path |-> p]
CaptureFailed(m) == [t |-> "CaptureFailed", message |-> m]
SelectionPreview(r) == [t |-> "SelectionPreview", rect |-> r]

\* capit_ipc::Wire
WireResponse(r) == [wire |-> "Response", body |-> r]
WireEvent(e) == [wire |-> "Event", body |-> e]
IsResponse(f) == f.wire = "Response"
IsEvent(f) == f.wire = "Event"

\* the frames send_event writes for a sequence of events
RECURSIVE EventFrames(_)
EventFrames(evs) ==
    IF evs = <<>> THEN <<>> ELSE <<WireEvent(Head(evs))>> \o EventFrames(Tail(evs))

\* ========================================================================
\* Selection state machine (selection.rs)
\* ========================================================================
Idle == [active |-> FALSE]
NoRect == "none"
ActiveSelection(m, tg, r) == [active |-> TRUE, mode |-> m, target |-> tg, rect |-> r]

\* what SelectionState::handle_request returns and does: Some(resp) or None
\* (handled), the events passed to emit, the state it leaves
Handled(resp, evs, sel) == [handled |-> TRUE, resp |-> resp, events |-> evs, sel |-> sel]
NotHandled(sel) == [handled |-> FALSE, resp |-> RespOk, events |-> <<>>, sel |-> sel]

\* SelectionState::handle_request, arm StartCapture
SelStartCapture(sel, req) ==
    IF req.with_ui /\ req.mode = "Region"
    THEN Handled(RespOk, <<CaptureStarted(req.mode)>>,
                 ActiveSelection(req.mode, req.target, NoRect))
    ELSE NotHandled(sel)

\* a slip that keeps the first rectangle of the session
SelSetSelectionKeepFirst(sel, req) ==
    IF sel.active
    THEN Handled(RespOk, <<SelectionPreview(req.rect)>>,
                 IF sel.rect = NoRect THEN [sel EXCEPT !.rect = req.rect] ELSE sel)
    ELSE Handled(RespError("no active selection session"), <<>>, sel)

\* SelectionState::handle_request, arm SetSelection
SelSetSelection(sel, req) ==
    IF sel.active
    THEN Handled(RespOk, <<SelectionPreview(req.rect)>>, [sel EXCEPT !.rect = req.rect])
    ELSE Handled(RespError("no active selection session"), <<>>, sel)

\* a slip that ends the session when the confirm is accepted
SelConfirmSelectionClears(sel, req) ==
    IF sel.active
    THEN IF sel.rect = NoRect
         THEN Handled(RespError("no selection rect set"), <<>>, sel)
         ELSE Handled(RespOk, <<>>, Idle)
    ELSE Handled(RespError("no active selection session"), <<>>, sel)

\* SelectionState::handle_request, arm ConfirmSelection
SelConfirmSelection(sel, req) ==
    IF sel.active
    THEN IF sel.rect = NoRect
         THEN Handled(RespError("no selection rect set"), <<>>, sel)
         ELSE Handled(RespOk, <<>>, sel)
    ELSE Handled(RespError("no active selection session"), <<>>, sel)

\* SelectionState::handle_request, arm Cancel
SelCancel(sel, req) ==
    IF sel.active THEN Handled(RespOk, <<>>, Idle) ELSE NotHandled(sel)

\* SelectionState::handle_request: [handled, resp, events, sel]
SelectionHandle(sel, req) ==
    CASE req.t = "StartCapture" -> SelStartCapture(sel, req)
      [] req.t = "SetSelection" -> SelSetSelection(sel, req)
      [] req.t = "ConfirmSelection" -> SelConfirmSelection(sel, req)
      [] req.t = "Cancel" -> SelCancel(sel, req)
      [] OTHER -> NotHandled(sel)

\* a slip that hands out the session without consuming it
TakeActivePeek(sel) == [taken |-> sel, sel |-> sel]

\* SelectionState::take_active: [taken, sel]
TakeActive(sel) == [taken |-> sel, sel |-> Idle]

\* a SelectionState made once, before the accept loop, and handed to every
\* connection
SelectionShared(prev) == prev

\* run(): let mut selection = SelectionState::new() in the body of the accept
\* loop, whatever the SelectionState of the connection before held
SelectionForConn(prev) == Idle

\* ========================================================================
\* Request dispatch (daemon/handlers.rs)
\* ========================================================================
NoJob == "None"

\* the outcomes of the collaborators
OutPath == "out.png"
OverlayRegionOutcomes ==
    {[ok |-> TRUE, some |-> TRUE, rect |-> r, msg |-> ""] : r \in Rects}
    \cup {[ok |-> TRUE, some |-> FALSE, rect |-> NoRect, msg |-> ""],
          [ok |-> FALSE, some |-> FALSE, rect |-> NoRect, msg |-> "overlay error"]}
OverlayScreenOutcomes ==
    {[ok |-> TRUE, some |-> TRUE, target |-> tg, msg |-> ""] : tg \in Targets \ {NoTarget}}
    \cup {[ok |-> TRUE, some |-> FALSE, target |-> NoTarget, msg |-> ""],
          [ok |-> FALSE, some |-> FALSE, target |-> NoTarget, msg |-> "screen overlay error"]}
CaptureOutcomes == {[ok |-> TRUE, msg |-> ""], [ok |-> FALSE, msg |-> "capture failed"]}

Failed(m) == [kind |-> "failed", msg |-> m]
Saved(p) == [kind |-> "saved", msg |-> p]

\* what handle_request did: the events it sent, the notifications it
\* raised, the Response it returned and the state it left
\* (user_cancel records that the overlay returned Ok(None))
Result(evs, notes, resp, job, sel) ==
    [events |-> evs, notes |-> notes, resp |-> resp, job |-> job, sel |-> sel,
     user_cancel |-> FALSE]

\* a cancellation answered Ok without the CaptureFailed{"cancelled"} event
UserCancelledSilent(evs, sel) ==
    [Result(evs, <<>>, RespOk, NoJob, sel) EXCEPT !.user_cancel = TRUE]

\* the overlay was cancelled by the user: CaptureFailed{"cancelled"}, no
\* notification, active_job cleared, Ok response
UserCancelled(evs, sel) ==
    [Result(evs \o <<CaptureFailed("cancelled")>>, <<>>, RespOk, NoJob, sel)
        EXCEPT !.user_cancel = TRUE]

\* a failure path that returns without state.active_job = None
FailWithJobLeft(evs, m, sel) ==
    Result(evs \o <<CaptureFailed(m)>>, <<Failed(m)>>, RespError(m), "Region", sel)

\* a failure path that answers Error without the CaptureFailed event
FailWithNoEvent(evs, m, sel) ==
    Result(evs, <<Failed(m)>>, RespError(m), NoJob, sel)

\* the common failure path: CaptureFailed event, notify_failed, active_job
\* cleared, Error response
FailWith(evs, m, sel) ==
    Result(evs \o <<CaptureFailed(m)>>, <<Failed(m)>>, RespError(m), NoJob, sel)

\* position of an output name in state.outputs (0 = not found)
Position(outs, name) ==
    IF \E i \in 1..Len(outs) : outs[i] = name
    THEN CHOOSE i \in 1..Len(outs) :
            outs[i] = name /\ \A j \in 1..(i - 1) : outs[j] # name
    ELSE 0

\* determine_output_index: [ok, idx, msg]
DetermineOutputIndex(outs, target) ==
    IF outs = <<>> THEN [ok |-> FALSE, idx |-> 0, msg |-> "no outputs available"]
    ELSE CASE target.k \in {"None", "AllScreens"} -> [ok |-> TRUE, idx |-> 1, msg |-> ""]
           [] target.k = "OutputName" ->
                IF Position(outs, target.name) # 0
                THEN [ok |-> TRUE, idx |-> Position(outs, target.name), msg |-> ""]
                ELSE [ok |-> FALSE, idx |-> 0, msg |-> "unknown output. Available"]
           [] OTHER -> [ok |-> FALSE, idx |-> 0, msg |-> "target not supported for region"]

\* handle_region_overlay_capture, after CaptureStarted was sent (evs)
HandleRegionOverlayCapture(evs, sel) ==
    {IF ov.ok /\ ov.some
     THEN IF cap.ok
          THEN Result(evs \o <<CaptureFinished(OutPath)>>, <<Saved(OutPath)>>, RespOk, NoJob, sel)
          ELSE FailWith(evs, cap.msg, sel)
     ELSE IF ov.ok
          THEN UserCancelled(evs, sel)
          ELSE FailWith(evs, ov.msg, sel)
     : ov \in OverlayRegionOutcomes, cap \in CaptureOutcomes}

\* the capture handle_screen_overlay_capture runs for the picked target
ScreenCaptureResults(outs, picked) ==
    CASE picked.k = "AllScreens" -> CaptureOutcomes
      [] picked.k = "OutputName" ->
            IF Position(outs, picked.name) # 0
            THEN CaptureOutcomes
            ELSE {[ok |-> FALSE, msg |-> "unknown output. Try one of"]}
      [] OTHER -> {[ok |-> FALSE, msg |-> "overlay returned unsupported target"]}

\* handle_screen_overlay_capture
HandleScreenOverlayCapture(outs, sel) ==
    LET evs == <<CaptureStarted("Screen")>> IN
    UNION {IF ov.ok /\ ov.some
           THEN {IF cap.ok
                 THEN Result(evs \o <<CaptureFinished(OutPath)>>, <<Saved(OutPath)>>,
                             RespOk, NoJob, sel)
                 ELSE FailWith(evs, cap.msg, sel)
                 : cap \in ScreenCaptureResults(outs, ov.target)}
           ELSE IF ov.ok
                THEN {UserCancelled(evs, sel)}
                ELSE {FailWith(evs, ov.msg, sel)}
           : ov \in OverlayScreenOutcomes}

\* handle_request, StartCapture branch
HandleStartCapture(outs, job, sel, req) ==
    CASE req.mode = "Region" ->
            LET evs == <<CaptureStarted("Region")>>
                idx == DetermineOutputIndex(outs, req.target) IN
            IF ~idx.ok THEN {FailWith(evs, idx.msg, sel)}
            ELSE HandleRegionOverlayCapture(evs, sel)
      [] req.mode = "Screen" -> HandleScreenOverlayCapture(outs, sel)
      [] req.mode = "Window" ->
            {FailWith(<<CaptureStarted("Window")>>, "window capture is not implemented yet", sel)}
      [] OTHER ->
            \* Record: active_job is neither set nor cleared
            {Result(<<CaptureFailed("record not implemented yet")>>,
                    <<Failed("record not implemented yet")>>,
                    RespError("record not implemented yet"), job, sel)}

\* handle_request, ConfirmSelection after SelectionState::handle_request
\* answered: take_active and the capture of the taken selection
HandleConfirm(job, h) ==
    LET tk == TakeActive(h.sel) IN
    IF ~tk.taken.active
    THEN {Result(h.events, <<>>, h.resp, job, tk.sel)}
    ELSE IF tk.taken.mode = "Region"
         THEN IF tk.taken.rect = NoRect
              THEN {FailWith(h.events, "no selection rect set", tk.sel)}
              ELSE {IF cap.ok
                    THEN Result(h.events \o <<CaptureFinished(OutPath)>>, <<Saved(OutPath)>>,
                                h.resp, NoJob, tk.sel)
                    ELSE FailWith(h.events, cap.msg, tk.sel)
                    : cap \in CaptureOutcomes}
         ELSE {FailWith(h.events, "ConfirmSelection not implemented yet", tk.sel)}

\* handle_request, the final match over the remaining requests
HandleOther(outs, job, sel, req) ==
    CASE req.t = "Hello" -> Result(<<>>, <<>>, RespOk, job, sel)
      [] req.t = "Status" -> Result(<<>>, <<>>, RespStatus(job), job, sel)
      [] req.t = "ListOutputs" -> Result(<<>>, <<>>, RespOutputs(outs), job, sel)
      [] req.t = "GetUiConfig" -> Result(<<>>, <<>>, RespUiConfig, job, sel)
      [] req.t = "Cancel" -> Result(<<>>, <<>>, RespOk, NoJob, sel)
      [] req.t = "SetSelection" ->
            Result(<<>>, <<>>, RespError("SetSelection without an active UI session"), job, sel)
      [] req.t = "ConfirmSelection" ->
            Result(<<>>, <<>>, RespError("ConfirmSelection without an active UI session"), job, sel)
      [] OTHER ->
            Result(<<>>, <<>>, RespError("Internal error: StartCapture not handled properly"),
                   job, sel)

\* a dispatch that leaves out the selection flow
HandleRequestNoSelection(outs, job, sel, req) ==
    IF req.t = "StartCapture" THEN HandleStartCapture(outs, job, sel, req)
    ELSE {HandleOther(outs, job, sel, req)}

\* handle_request: the set of results it can produce, one per outcome of
\* the collaborators
HandleRequest(outs, job, sel, req) ==
    IF req.t = "StartCapture" THEN HandleStartCapture(outs, job, sel, req)
    ELSE IF req.t \in {"SetSelection", "ConfirmSelection"}
         THEN LET h == SelectionHandle(sel, req) IN
              IF req.t = "ConfirmSelection"
              THEN HandleConfirm(job, h)
              ELSE {Result(h.events, <<>>, h.resp, job, h.sel)}
         ELSE {HandleOther(outs, job, sel, req)}

\* ========================================================================
\* Daemon accept / request loop (daemon/server.rs run, capit-ipc/src/server.rs)
\* ========================================================================
Peers == 1..NumClients

\* outputs query_outputs may report at start-up
OutputConfigs == {<<>>, <<"DP-1">>}

\* the frames a peer writes: every request kind; targets and with_ui are
\* varied where the handlers look at them
PeerFrames ==
    {Hello(v) : v \in Versions}
    \cup {Plain(t) : t \in {"ListOutputs", "GetUiConfig", "ConfirmSelection", "Cancel", "Status"}}
    \cup {StartCapture("Region", tg, TRUE) : tg \in Targets}
    \cup {StartCapture("Region", NoTarget, FALSE)}
    \cup {StartCapture("Screen", tg, TRUE) : tg \in {NoTarget, OutputName("DP-1")}}
    \cup {StartCapture(m, NoTarget, FALSE) : m \in {"Window", "Record"}}
    \cup {SetSelection(r) : r \in Rects}
    \cup {Garbage}

\* the frames a peer writes as the first of its connection
FirstFrames ==
    {Hello(v) : v \in Versions} \cup {Plain("Status"), Plain("Cancel"), Garbage}

\* the frames a peer writes while its connection still waits in the listen
\* queue: its handshake, or a request sent without one (handle_hello treats
\* every request that is not a Hello alike)
QueuedFrames == {Hello(IPC_VERSION), Plain("Cancel")}

NoExit == [at |-> "none", result |-> "none", err |-> [kind |-> "none"]]
ExitOk(at) == [at |-> at, result |-> "Ok", err |-> [kind |-> "none"]]
ExitErr(at, e) == [at |-> at, result |-> "Err", err |-> e]
IoError == [kind |-> "Io"]
SerError == [kind |-> "Ser"]
VersionMismatch(c, s) == [kind |-> "VersionMismatch", client |-> c, server |-> s]

DaemonInit ==
    /\ dpc = "start"
    /\ dexit = NoExit
    /\ shutdown_flag = FALSE
    /\ outputs = <<>>
    /\ active_job = NoJob
    /\ selection = Idle
    /\ conn = 0
    /\ cur_req = NoReq
    /\ first = NoReq
    /\ sent = <<>>
    /\ notified = <<>>
    /\ backlog = <<>>
    /\ pst = [c \in Peers |-> "idle"]
    /\ c2s = [c \in Peers |-> <<>>]
    /\ nsent = 0

\* the connection waits in the listen queue of the socket
InBacklog(c) == \E i \in 1..Len(backlog) : backlog[i] = c

\* the peer end of the connection is still open, so a write reaches it
PeerOpen(c) == pst[c] = "open"

\* ClientConn::recv would return: a frame is waiting or the peer hung up
CanRecv(c) == c2s[c] # <<>> \/ pst[c] = "closed"

\* ClientConn::recv: the decoded request, or the error it fails with
Recv(c) ==
    IF c2s[c] = <<>> THEN [ok |-> FALSE, err |-> IoError, req |-> NoReq]
    ELSE IF Head(c2s[c]) = Garbage THEN [ok |-> FALSE, err |-> SerError, req |-> NoReq]
    ELSE [ok |-> TRUE, err |-> [kind |-> "none"], req |-> Head(c2s[c])]

\* the connection value is dropped by the daemon: the peer sees a hang-up
DropConn(c) == [pst EXCEPT ![c] = IF @ = "open" THEN "hungup" ELSE @]

\* every connection is dropped when run() returns
DropAll == [c \in Peers |-> IF pst[c] = "open" THEN "hungup" ELSE pst[c]]

\* run() returns: the accepted connection and the listener are dropped,
\* unread frames are discarded
DaemonExit(x) ==
    /\ dpc' = "exited"
    /\ dexit' = x
    /\ conn' = 0
    /\ backlog' = <<>>
    /\ pst' = DropAll
    /\ c2s' = [c \in Peers |-> <<>>]
    /\ UNCHANGED nsent

\* a handshake that answers a wrong version like any other first message
HandleHelloLenient(req) ==
    IF req.t = "Hello" /\ req.version = IPC_VERSION
    THEN [send |-> TRUE, resp |-> RespOk, err |-> [kind |-> "none"]]
    ELSE [send |-> TRUE, resp |-> RespError("expected hello"), err |-> [kind |-> "none"]]

\* ClientConn::handle_hello: the Response it sends, or the error it returns
\* without sending
HandleHello(req) ==
    IF req.t = "Hello" /\ req.version = IPC_VERSION
    THEN [send |-> TRUE, resp |-> RespOk, err |-> [kind |-> "none"]]
    ELSE IF req.t = "Hello"
         THEN [send |-> FALSE, resp |-> RespOk,
               err |-> VersionMismatch(req.version, IPC_VERSION)]
         ELSE [send |-> TRUE, resp |-> RespError("expected hello"), err |-> [kind |-> "none"]]

\* run(), lines 147-168: bind the socket, query the outputs, start the watcher
DaemonStart ==
    /\ dpc = "start"
    /\ \E o \in OutputConfigs : outputs' = o
    /\ dpc' = "accept"
    /\ UNCHANGED <<dexit, shutdown_flag, active_job, selection, conn, cur_req, first,
                   sent, notified, backlog, pst, c2s, nsent>>
    /\ UNCHANGED <<lockVars, clientVars, unitVars>>

\* the session watcher sets the flag
WatcherShutdown ==
    /\ dpc \notin {"start", "exited"}
    /\ ~shutdown_flag
    /\ shutdown_flag' = TRUE
    /\ UNCHANGED <<dpc, dexit, outputs, active_job, selection, conn, cur_req, first,
                   sent, notified, backlog, pst, c2s, nsent>>
    /\ UNCHANGED <<lockVars, clientVars, unitVars>>

\* top of the accept loop with the flag set: break, graceful shutdown
DaemonShutdown ==
    /\ dpc = "accept"
    /\ shutdown_flag
    /\ DaemonExit(ExitOk("accept"))
    /\ UNCHANGED <<shutdown_flag, outputs, active_job, selection, cur_req, first,
                   sent, notified>>
    /\ UNCHANGED <<lockVars, clientVars, unitVars>>

\* an accept that is also attempted between the requests of a session
AcceptReachedInLoop == dpc \in {"accept", "loop"}

\* server.accept() is called at the top of the outer loop only, which is
\* reached at start-up and when the request loop of a connection has ended
AcceptReached == dpc = "accept"

\* server.accept() returns a connection; a fresh SelectionState is made
DaemonAccept ==
    /\ AcceptReached
    /\ ~shutdown_flag
    /\ backlog # <<>>
    /\ conn' = Head(backlog)
    /\ backlog' = Tail(backlog)
    /\ selection' = SelectionForConn(selection)
    /\ cur_req' = NoReq
    /\ first' = NoReq
    /\ sent' = <<>>
    /\ notified' = <<>>
    /\ dpc' = "hello"
    /\ UNCHANGED <<dexit, shutdown_flag, outputs, active_job, pst, c2s, nsent>>
    /\ UNCHANGED <<lockVars, clientVars, unitVars>>

\* let first = conn.recv()?; conn.handle_hello(&first)?;
DaemonHello ==
    /\ dpc = "hello"
    /\ CanRecv(conn)
    /\ LET r == Recv(conn)
           h == HandleHello(r.req) IN
       IF ~r.ok
       THEN /\ DaemonExit(ExitErr("hello_recv", r.err))
            /\ UNCHANGED <<first, sent>>
       ELSE /\ first' = r.req
            /\ IF ~h.send
               THEN /\ DaemonExit(ExitErr("handle_hello", h.err))
                    /\ UNCHANGED sent
               ELSE IF PeerOpen(conn)
                    THEN /\ sent' = <<WireResponse(h.resp)>>
                         /\ dpc' = "loop"
                         /\ c2s' = [c2s EXCEPT ![conn] = Tail(@)]
                         /\ UNCHANGED <<dexit, conn, backlog, pst, nsent>>
                    ELSE /\ DaemonExit(ExitErr("handle_hello", IoError))
                         /\ UNCHANGED sent
    /\ UNCHANGED <<shutdown_flag, outputs, active_job, selection, cur_req, notified>>
    /\ UNCHANGED <<lockVars, clientVars, unitVars>>

\* while let Ok(req) = conn.recv() { if shutdown_flag { return Ok(()) } ...
DaemonRecv ==
    /\ dpc = "loop"
    /\ CanRecv(conn)
    /\ LET r == Recv(conn) IN
       IF ~r.ok
       THEN \* "client disconnected": back to the top of the accept loop
            /\ dpc' = "accept"
            /\ conn' = 0
            /\ pst' = DropConn(conn)
            /\ c2s' = [c2s EXCEPT ![conn] = <<>>]
            /\ UNCHANGED nsent
            /\ cur_req' = NoReq
            /\ sent' = <<>>
            /\ notified' = <<>>
            /\ UNCHANGED <<dexit, backlog>>
       ELSE /\ cur_req' = r.req
            /\ sent' = <<>>
            /\ notified' = <<>>
            /\ IF shutdown_flag
               THEN DaemonExit(ExitOk("session"))
               ELSE /\ dpc' = "handling"
                    /\ c2s' = [c2s EXCEPT ![conn] = Tail(@)]
                    /\ UNCHANGED <<dexit, conn, backlog, pst, nsent>>
    /\ UNCHANGED <<shutdown_flag, outputs, active_job, selection, first>>
    /\ UNCHANGED <<lockVars, clientVars, unitVars>>

\* a dispatch that answers before it reports progress
FramesResponseFirst(res) == <<WireResponse(res.resp)>> \o EventFrames(res.events)

\* the frames written for one request when every write succeeds: the events
\* handle_request sends while it runs, then the Response run() sends
Frames(res) == EventFrames(res.events) \o <<WireResponse(res.resp)>>

\* let resp = handle_request(..); conn.send(resp)?;
\* Event writes that fail are ignored; a failed Response write ends run().
\* The peer may go away while the request is handled, after k of the
\* events were written.
DaemonHandle ==
    /\ dpc = "handling"
    /\ \E res \in HandleRequest(outputs, active_job, selection, cur_req) :
         /\ active_job' = res.job
         /\ selection' = res.sel
         /\ notified' = res.notes
         /\ \/ /\ PeerOpen(conn)
               /\ sent' = Frames(res)
               /\ dpc' = "loop"
               /\ UNCHANGED <<dexit, conn, backlog, pst, c2s, nsent>>
            \/ /\ \E k \in 0..Len(res.events) :
                    /\ IF PeerOpen(conn) THEN TRUE ELSE k = 0
                    /\ sent' = EventFrames(SubSeq(res.events, 1, k))
               /\ DaemonExit(ExitErr("send", IoError))
    /\ UNCHANGED <<shutdown_flag, outputs, cur_req, first>>
    /\ UNCHANGED <<lockVars, clientVars, unitVars>>

\* a peer connects to the socket; the connection waits in the listen queue
\* (peers are interchangeable: they connect in the order of their ids)
PeerConnect(c) ==
    /\ pst[c] = "idle"
    /\ \A d \in Peers : d < c => pst[d] # "idle"
    /\ dpc \in {"accept", "hello", "loop", "handling"}
    /\ pst' = [pst EXCEPT ![c] = "open"]
    /\ backlog' = Append(backlog, c)
    /\ UNCHANGED <<dpc, dexit, shutdown_flag, outputs, active_job, selection, conn,
                   cur_req, first, sent, notified, c2s, nsent>>
    /\ UNCHANGED <<lockVars, clientVars, unitVars>>

\* a peer writes one frame and waits for the daemon to read it before it
\* writes the next; the first frame may be written while the connection
\* still waits in the listen queue
PeerSend(c, f) ==
    /\ pst[c] = "open"
    /\ conn = c \/ InBacklog(c)
    /\ c2s[c] = <<>>
    /\ nsent < MaxSends
    /\ InBacklog(c) => f \in QueuedFrames
    /\ (conn = c /\ dpc = "hello") => f \in FirstFrames
    /\ c2s' = [c2s EXCEPT ![c] = Append(@, f)]
    /\ nsent' = nsent + 1
    /\ UNCHANGED <<dpc, dexit, shutdown_flag, outputs, active_job, selection, conn,
                   cur_req, first, sent, notified, backlog, pst>>
    /\ UNCHANGED <<lockVars, clientVars, unitVars>>

\* a peer closes its end of the stream
PeerClose(c) ==
    /\ pst[c] = "open"
    /\ pst' = [pst EXCEPT ![c] = "closed"]
    /\ UNCHANGED nsent
    /\ UNCHANGED <<dpc, dexit, shutdown_flag, outputs, active_job, selection, conn,
                   cur_req, first, sent, notified, backlog, c2s>>
    /\ UNCHANGED <<lockVars, clientVars, unitVars>>

NextDaemon ==
    \/ DaemonStart
    \/ WatcherShutdown
    \/ DaemonShutdown
    \/ DaemonAccept
    \/ DaemonHello
    \/ DaemonRecv
    \/ DaemonHandle
    \/ \E c \in Peers : PeerConnect(c)
    \/ \E c \in Peers, f \in PeerFrames : PeerSend(c, f)
    \/ \E c \in Peers : PeerClose(c)

\* ========================================================================
\* IPC client (capit-ipc/src/client.rs) against an arbitrary peer
\* ========================================================================
\* the frames the peer may write
WireFrames ==
    {WireResponse(RespOk), WireResponse(RespError("e"))}
    \cup {WireEvent(CaptureStarted("Region")), WireEvent(CaptureFinished(OutPath)),
          WireEvent(CaptureFailed("cancelled"))}

NoResp == [t |-> "none"]

ClientInit ==
    /\ pending_events = <<>>
    /\ stream = <<>>
    /\ wireLog = <<>>
    /\ nread = 0
    /\ cpc = "idle"
    /\ peerOpen = TRUE
    /\ reqWritten = 0
    /\ callStart = [read |-> 0, pending |-> <<>>, reqs |-> 0]
    /\ lastResp = NoResp
    /\ delivered = <<>>
    /\ nops = 0

\* recv_wire would return: a frame is waiting or the peer closed the stream
CanRecvWire == stream # <<>> \/ ~peerOpen

\* a buffer that puts the newest event first
PushFront(q, ev) == <<ev>> \o q

\* pending_events.push_back(ev)
PushBack(q, ev) == Append(q, ev)

\* next_event: the buffered FIFO is drained before the wire is read
BufferedFirst(q) == q # <<>>

\* a call that hands back any frame as the answer
EndsCallAny(f) == TRUE

\* call: the receive loop ends on a Wire::Response only
EndsCall(f) == IsResponse(f)

\* call(req): write_frame(&mut self.stream, &bytes)?
CallWrite ==
    /\ cpc = "idle"
    /\ nops < MaxOps
    /\ nops' = nops + 1
    /\ callStart' = [read |-> nread, pending |-> pending_events, reqs |-> reqWritten]
    /\ IF peerOpen
       THEN /\ reqWritten' = reqWritten + 1
            /\ cpc' = "call"
       ELSE /\ cpc' = "failed"
            /\ UNCHANGED reqWritten
    /\ UNCHANGED <<pending_events, stream, wireLog, nread, peerOpen, lastResp, delivered>>
    /\ UNCHANGED <<lockVars, daemonVars, unitVars>>

\* call: one turn of the receive loop
CallRecv ==
    /\ cpc = "call"
    /\ CanRecvWire
    /\ IF stream = <<>>
       THEN /\ cpc' = "failed"
            /\ UNCHANGED <<pending_events, stream, nread, lastResp>>
       ELSE /\ stream' = Tail(stream)
            /\ nread' = nread + 1
            /\ IF EndsCall(Head(stream))
               THEN /\ lastResp' = Head(stream).body
                    /\ cpc' = "idle"
                    /\ UNCHANGED pending_events
               ELSE /\ pending_events' = PushBack(pending_events, Head(stream).body)
                    /\ UNCHANGED <<cpc, lastResp>>
    /\ UNCHANGED <<wireLog, peerOpen, reqWritten, callStart, delivered, nops>>
    /\ UNCHANGED <<lockVars, daemonVars, unitVars>>

\* next_event(): pop the head of the FIFO, or start reading the wire
NextEventCall ==
    /\ cpc = "idle"
    /\ nops < MaxOps
    /\ nops' = nops + 1
    /\ IF BufferedFirst(pending_events)
       THEN /\ delivered' = Append(delivered, Head(pending_events))
            /\ pending_events' = Tail(pending_events)
            /\ UNCHANGED cpc
       ELSE /\ cpc' = "next_event"
            /\ UNCHANGED <<delivered, pending_events>>
    /\ UNCHANGED <<stream, wireLog, nread, peerOpen, reqWritten, callStart, lastResp>>
    /\ UNCHANGED <<lockVars, daemonVars, unitVars>>

\* a next_event that hands back whatever frame it reads
EndsNextEventAny(f) == TRUE

\* next_event: the receive loop ends on a Wire::Event only
EndsNextEvent(f) == IsEvent(f)

\* next_event: one turn of the receive loop; a Response is skipped
NextEventRecv ==
    /\ cpc = "next_event"
    /\ CanRecvWire
    /\ IF stream = <<>>
       THEN /\ cpc' = "failed"
            /\ UNCHANGED <<stream, nread, delivered>>
       ELSE /\ stream' = Tail(stream)
            /\ nread' = nread + 1
            /\ IF EndsNextEvent(Head(stream))
               THEN /\ delivered' = Append(delivered, Head(stream).body)
                    /\ cpc' = "idle"
               ELSE UNCHANGED <<delivered, cpc>>
    /\ UNCHANGED <<pending_events, wireLog, peerOpen, reqWritten, callStart, lastResp, nops>>
    /\ UNCHANGED <<lockVars, daemonVars, unitVars>>

\* the peer writes a frame
PeerWrite(f) ==
    /\ peerOpen
    /\ cpc # "failed"
    /\ Len(wireLog) < MaxWire
    /\ stream' = Append(stream, f)
    /\ wireLog' = Append(wireLog, f)
    /\ UNCHANGED <<pending_events, nread, cpc, peerOpen, reqWritten, callStart,
                   lastResp, delivered, nops>>
    /\ UNCHANGED <<lockVars, daemonVars, unitVars>>

\* the peer closes the stream
PeerHangup ==
    /\ peerOpen
    /\ peerOpen' = FALSE
    /\ UNCHANGED <<pending_events, stream, wireLog, nread, cpc, reqWritten, callStart,
                   lastResp, delivered, nops>>
    /\ UNCHANGED <<lockVars, daemonVars, unitVars>>

NextClient ==
    \/ CallWrite
    \/ CallRecv
    \/ NextEventCall
    \/ NextEventRecv
    \/ \E f \in WireFrames : PeerWrite(f)
    \/ PeerHangup


\* ========================================================================
\* Daemon start-up (daemon/server.rs run, lines 64-153; IpcServer::bind)
\* ========================================================================
NoSock == 0

\* the pid of a daemon of an earlier session that was killed while it held
\* the lock: no such process exists any more
GonePid == NumProcs + 1

\* the lock file such a daemon left behind
LeftoverLock == [exists |-> TRUE, inode |-> GonePid, content |-> GonePid]

\* the process is past IpcServer::bind and in the accept loop
Serving(p) == lpc[p] = "held" /\ rpc[p] = "serving"

\* the result of run() for a process whose acquire_for_socket failed:
\* AlreadyRunning is a clean exit, any other lock error is returned
RunResult(p) ==
    CASE lres[p] = "AlreadyRunning" -> "Ok"
      [] lres[p] = "Io" -> "Err"
      [] rpc[p] = "bind_failed" -> "Err"
      [] rpc[p] = "returned" -> "Ok"
      [] OTHER -> "none"

StartInit ==
    /\ sockFile = NoSock
    /\ rpc = [p \in Pids |-> "lock"]
    /\ servingAtStart = [p \in Pids |-> {}]

\* run() is entered and reaches InstanceLock::acquire_for_socket
RunStart(p) ==
    /\ lpc[p] = "idle"
    /\ lpc' = [lpc EXCEPT ![p] = "check"]
    /\ ldeadAtStart' = [ldeadAtStart EXCEPT ![p] = {q \in Pids : lpc[q] = "crashed"}]
    /\ servingAtStart' = [servingAtStart EXCEPT ![p] = {q \in Pids : Serving(q)}]
    /\ UNCHANGED <<lockFile, lread, lres, lfound, lcreate, sockFile, rpc>>
    /\ UNCHANGED <<daemonVars, clientVars, selVars, dispatchVars, frameVars, moreVars>>

\* cleanup_stale_socket, then IpcServer::bind: let _ = fs::remove_file(..):
\* a socket file found at the path is removed
CleanupStaleSocket(p) ==
    /\ lpc[p] = "held" /\ rpc[p] = "lock"
    /\ sockFile' = NoSock
    /\ rpc' = [rpc EXCEPT ![p] = "bind"]
    /\ UNCHANGED <<lockVars, servingAtStart>>
    /\ UNCHANGED <<daemonVars, clientVars, selVars, dispatchVars, frameVars, moreVars>>

\* IpcServer::bind: UnixListener::bind(&socket_path)?; a path that exists
\* again makes bind fail, run() returns the error and drops the lock
BindListen(p) ==
    /\ lpc[p] = "held" /\ rpc[p] = "bind"
    /\ IF sockFile = NoSock
       THEN /\ sockFile' = p
            /\ rpc' = [rpc EXCEPT ![p] = "serving"]
            /\ UNCHANGED lockVars
       ELSE /\ rpc' = [rpc EXCEPT ![p] = "bind_failed"]
            /\ lockFile' = NoFile
            /\ lpc' = [lpc EXCEPT ![p] = "exited"]
            /\ UNCHANGED <<sockFile, lread, lres, lfound, lcreate, ldeadAtStart>>
    /\ UNCHANGED servingAtStart
    /\ UNCHANGED <<daemonVars, clientVars, selVars, dispatchVars, frameVars, moreVars>>

\* the accept loop ends and run() returns Ok: _lock is dropped, which removes
\* whatever is at lock_path; the socket file stays
ServeExit(p) ==
    /\ Serving(p)
    /\ lockFile' = NoFile
    /\ lpc' = [lpc EXCEPT ![p] = "exited"]
    /\ rpc' = [rpc EXCEPT ![p] = "returned"]
    /\ servingAtStart' = [q \in Pids |-> IF q = p THEN {} ELSE servingAtStart[q] \ {p}]
    /\ UNCHANGED <<lread, lres, lfound, lcreate, ldeadAtStart, sockFile>>
    /\ UNCHANGED <<daemonVars, clientVars, selVars, dispatchVars, frameVars, moreVars>>

NextStartup ==
    \/ \E p \in Pids : RunStart(p)
    \/ \E p \in Pids : StaleRead(p)
    \/ \E p \in Pids : StaleProc(p)
    \/ \E p \in Pids : RemoveStale(p)
    \/ \E p \in Pids : CreateNew(p)
    \/ \E p \in Pids : WritePid(p)
    \/ \E p \in Pids : CleanupStaleSocket(p)
    \/ \E p \in Pids : BindListen(p)
    \/ \E p \in Pids : ServeExit(p)

\* ========================================================================
\* A SelectionState driven through its methods (selection.rs)
\* ========================================================================
\* the requests passed to SelectionState::handle_request
SelRequests ==
    {StartCapture("Region", NoTarget, TRUE), StartCapture("Region", NoTarget, FALSE),
     StartCapture("Region", OutputName("DP-1"), TRUE),
     StartCapture("Screen", NoTarget, TRUE)}
    \cup {SetSelection(r) : r \in Rects}
    \cup {Plain("ConfirmSelection"), Plain("Cancel"), Plain("Status")}

\* the entry of sel_log for a call of take_active
TakeOp == [t |-> "take_active"]

\* the entry of sel_log for a connection that ends and the next one accepted
AcceptOp == [t |-> "accept"]

\* Option<Response> and Option<ActiveSelection> before any call
NotCalled == [t |-> "not called"]
\* handle_request returned None
NoneResp == [t |-> "None"]

\* the values a SelectionState takes
SelectionStates ==
    {Idle} \cup {ActiveSelection("Region", tg, r) : tg \in Targets, r \in Rects \cup {NoRect}}

SelInit ==
    /\ sel_active = Idle
    /\ sel_log = <<>>
    /\ sel_resp = NotCalled
    /\ sel_events = <<>>
    /\ sel_taken = NotCalled

\* selection.handle_request(&req, emit)
SelHandleRequest(req) ==
    /\ Len(sel_log) < MaxSelOps
    /\ LET h == SelectionHandle(sel_active, req) IN
       /\ sel_active' = h.sel
       /\ sel_resp' = IF h.handled THEN h.resp ELSE NoneResp
       /\ sel_events' = h.events
    /\ sel_taken' = NotCalled
    /\ sel_log' = Append(sel_log, req)
    /\ UNCHANGED <<lockVars, daemonVars, clientVars, startVars, dispatchVars, frameVars, moreVars>>

\* selection.take_active()
SelTakeActive ==
    /\ Len(sel_log) < MaxSelOps
    /\ LET tk == TakeActive(sel_active) IN
       /\ sel_active' = tk.sel
       /\ sel_taken' = tk.taken
    /\ sel_resp' = NotCalled
    /\ sel_events' = <<>>
    /\ sel_log' = Append(sel_log, TakeOp)
    /\ UNCHANGED <<lockVars, daemonVars, clientVars, startVars, dispatchVars, frameVars, moreVars>>

\* the request loop of the connection ends, whatever its SelectionState holds,
\* and the next connection is accepted
SelNewConnection ==
    /\ Len(sel_log) < MaxSelOps
    /\ sel_active' = SelectionForConn(sel_active)
    /\ sel_resp' = NotCalled
    /\ sel_events' = <<>>
    /\ sel_taken' = NotCalled
    /\ sel_log' = Append(sel_log, AcceptOp)
    /\ UNCHANGED <<lockVars, daemonVars, clientVars, startVars, dispatchVars, frameVars, moreVars>>

NextSelection ==
    \/ \E req \in SelRequests : SelHandleRequest(req)
    \/ SelTakeActive
    \/ SelNewConnection

\* ========================================================================
\* Dispatch of one request after the other (daemon/handlers.rs
\* handle_request, daemon/server.rs lines 216-219) and the caller of
\* StartCapture (capit-bar/src/capture.rs start_capture)
\* ========================================================================
NoRes == [t |-> "none"]

\* CaptureOutcome and the Err(String) of start_capture
NoOutcome == [t |-> "none"]
Finished(p) == [t |-> "Finished", path |-> p]
Cancelled == [t |-> "Cancelled"]
ErrOutcome(m) == [t |-> "Err", message |-> m]
\* next_event waits for a frame that never comes
Blocked == [t |-> "Blocked"]

DispatchInit ==
    /\ h_outs = <<>>
    /\ h_sel = Idle
    /\ h_job = NoJob
    /\ h_req = NoReq
    /\ h_res = NoRes
    /\ h_wire = <<>>
    /\ h_pc = "setup"
    /\ h_n = 0
    /\ b_out = NoOutcome

\* IpcClient::call on the frames the daemon wrote: events are buffered until
\* the frame that ends the call
RECURSIVE CallScan(_, _)
CallScan(frames, pending) ==
    IF frames = <<>> THEN [resp |-> NoResp, pending |-> pending, rest |-> <<>>]
    ELSE IF EndsCall(Head(frames))
         THEN [resp |-> Head(frames).body, pending |-> pending, rest |-> Tail(frames)]
         ELSE CallScan(Tail(frames), PushBack(pending, Head(frames).body))

\* the events next_event returns from the frames left on the stream
RECURSIVE EventsIn(_)
EventsIn(frames) ==
    IF frames = <<>> THEN <<>>
    ELSE IF IsEvent(Head(frames))
         THEN <<Head(frames).body>> \o EventsIn(Tail(frames))
         ELSE EventsIn(Tail(frames))

\* start_capture, lines 39-58: the first terminal event decides
RECURSIVE AwaitTerminal(_)
AwaitTerminal(evs) ==
    IF evs = <<>> THEN Blocked
    ELSE CASE Head(evs).t = "CaptureFinished" -> Finished(Head(evs).path)
           [] Head(evs).t = "CaptureFailed" ->
                IF Head(evs).message = "cancelled"
                THEN Cancelled
                ELSE ErrOutcome(Head(evs).message)
           [] OTHER -> AwaitTerminal(Tail(evs))

\* start_capture: call(StartCapture), then the event loop
StartCaptureOutcome(frames) ==
    LET c == CallScan(frames, <<>>) IN
    IF c.resp = NoResp THEN Blocked
    ELSE IF c.resp # RespOk THEN Cancelled
         ELSE AwaitTerminal(c.pending \o EventsIn(c.rest))

\* the daemon state a connection finds: the outputs queried at start-up and
\* a SelectionState
DispatchSetup ==
    /\ h_pc = "setup"
    /\ h_outs' \in OutputConfigs
    /\ h_sel' \in SelectionStates
    /\ h_pc' = "ready"
    /\ UNCHANGED <<h_job, h_req, h_res, h_wire, h_n, b_out>>
    /\ UNCHANGED <<lockVars, daemonVars, clientVars, startVars, selVars, frameVars, moreVars>>

\* while let Ok(req) = conn.recv()
RequestArrives(req) ==
    /\ h_pc \in {"ready", "answered", "returned"}
    /\ h_n < MaxReqs
    /\ h_n' = h_n + 1
    /\ h_req' = req
    /\ h_res' = NoRes
    /\ h_wire' = <<>>
    /\ b_out' = NoOutcome
    /\ h_pc' = "handling"
    /\ UNCHANGED <<h_outs, h_sel, h_job>>
    /\ UNCHANGED <<lockVars, daemonVars, clientVars, startVars, selVars, frameVars, moreVars>>

\* let resp = handle_request(&mut state, &mut selection, &mut conn, req)
Dispatch ==
    /\ h_pc = "handling"
    /\ \E res \in HandleRequest(h_outs, h_job, h_sel, h_req) :
         /\ h_res' = res
         /\ h_wire' = EventFrames(res.events)
         /\ h_sel' = res.sel
         /\ h_job' = res.job
    /\ h_pc' = "handled"
    /\ UNCHANGED <<h_outs, h_req, h_n, b_out>>
    /\ UNCHANGED <<lockVars, daemonVars, clientVars, startVars, selVars, frameVars, moreVars>>

\* conn.send(resp)
SendResponse ==
    /\ h_pc = "handled"
    /\ h_wire' = Append(h_wire, WireResponse(h_res.resp))
    /\ h_pc' = "answered"
    /\ UNCHANGED <<h_outs, h_sel, h_job, h_req, h_res, h_n, b_out>>
    /\ UNCHANGED <<lockVars, daemonVars, clientVars, startVars, selVars, frameVars, moreVars>>

\* the caller of StartCapture runs start_capture on the frames
BarStartCapture ==
    /\ h_pc = "answered"
    /\ h_req.t = "StartCapture"
    /\ b_out' = StartCaptureOutcome(h_wire)
    /\ h_pc' = "returned"
    /\ UNCHANGED <<h_outs, h_sel, h_job, h_req, h_res, h_wire, h_n>>
    /\ UNCHANGED <<lockVars, daemonVars, clientVars, startVars, selVars, frameVars, moreVars>>

NextDispatch ==
    \/ DispatchSetup
    \/ \E req \in Requests : RequestArrives(req)
    \/ Dispatch
    \/ SendResponse
    \/ BarStartCapture

\* ========================================================================
\* Framing (capit-ipc/src/framing.rs)
\* ========================================================================
\* a u8 has 256 values; the length prefix is the 4 bytes of a u32
ByteBase == 256
LenBytes == 4

\* the byte values the payloads of the model are made of
PayloadBytes == {0, 1}

\* every payload of at most MaxPayload bytes
Payloads == UNION {[1..n -> PayloadBytes] : n \in 0..MaxPayload}

\* the max_len values passed to read_frame
MaxLens == 0..MaxPayload

\* bytes.len().try_into(): the length fits a u32
FitsU32(n) == n \div (ByteBase ^ (LenBytes - 1)) < ByteBase

\* a slip that writes the length most significant byte first
ToBeBytes(n) == [i \in 1..LenBytes |-> (n \div (ByteBase ^ (LenBytes - i))) % ByteBase]

\* len.to_le_bytes()
ToLeBytes(n) == [i \in 1..LenBytes |-> (n \div (ByteBase ^ (i - 1))) % ByteBase]

\* u32::from_le_bytes(len_buf)
RECURSIVE FromLeBytes(_)
FromLeBytes(b) ==
    IF b = <<>> THEN 0 ELSE Head(b) + ByteBase * FromLeBytes(Tail(b))

\* write_frame: [ok, err, out] where out is what reached the stream
WriteFrame(bytes) ==
    IF ~FitsU32(Len(bytes))
    THEN [ok |-> FALSE, err |-> "FrameTooLarge", out |-> <<>>]
    ELSE [ok |-> TRUE, err |-> "", out |-> ToLeBytes(Len(bytes)) \o bytes]

\* a read_frame that takes the body off the stream before it compares the
\* declared length with max_len
ReadFrameBodyFirst(s, max_len) ==
    IF Len(s) < LenBytes
    THEN [ok |-> FALSE, err |-> "Io", bytes |-> <<>>, rest |-> <<>>]
    ELSE LET len == FromLeBytes(SubSeq(s, 1, LenBytes))
             body == SubSeq(s, LenBytes + 1, Len(s)) IN
         IF Len(body) < len
         THEN [ok |-> FALSE, err |-> "Io", bytes |-> <<>>, rest |-> <<>>]
         ELSE IF len > max_len
              THEN [ok |-> FALSE, err |-> "FrameTooLarge", bytes |-> <<>>,
                    rest |-> SubSeq(body, len + 1, Len(body))]
              ELSE [ok |-> TRUE, err |-> "", bytes |-> SubSeq(body, 1, len),
                    rest |-> SubSeq(body, len + 1, Len(body))]

\* read_frame on the bytes of the stream: [ok, err, bytes, rest]; a stream
\* that ends inside the prefix or the body is a failed read_exact
ReadFrame(s, max_len) ==
    IF Len(s) < LenBytes
    THEN [ok |-> FALSE, err |-> "Io", bytes |-> <<>>, rest |-> <<>>]
    ELSE LET len == FromLeBytes(SubSeq(s, 1, LenBytes))
             body == SubSeq(s, LenBytes + 1, Len(s)) IN
         IF len > max_len
         THEN [ok |-> FALSE, err |-> "FrameTooLarge", bytes |-> <<>>, rest |-> body]
         ELSE IF Len(body) < len
              THEN [ok |-> FALSE, err |-> "Io", bytes |-> <<>>, rest |-> <<>>]
              ELSE [ok |-> TRUE, err |-> "", bytes |-> SubSeq(body, 1, len),
                    rest |-> SubSeq(body, len + 1, Len(body))]

NoCall == [op |-> "none", ok |-> TRUE, err |-> "", max_len |-> 0, taken |-> 0]

\* a caller that goes on using the stream after an Err
StreamOpenAfterErr == TRUE

\* every caller of read_frame gives the stream up when it returns Err
\* (conn.recv()? and the end of the while-let loop in run, map_err in the
\* client), so nothing is written or read on it afterwards
StreamOpen == ~(f_last.op = "read" /\ ~f_last.ok)

FrameInit ==
    /\ f_stream = <<>>
    /\ f_written = <<>>
    /\ f_read = <<>>
    /\ f_last = NoCall
    /\ f_eof = FALSE

\* write_frame(&mut stream, &bytes)
WriteFrameStep(bytes) ==
    /\ StreamOpen
    /\ ~f_eof
    /\ Len(f_written) < MaxFrames
    /\ LET w == WriteFrame(bytes) IN
       /\ f_stream' = f_stream \o w.out
       /\ f_written' = IF w.ok THEN Append(f_written, bytes) ELSE f_written
       /\ f_last' = [op |-> "write", ok |-> w.ok, err |-> w.err, max_len |-> 0, taken |-> 0]
    /\ UNCHANGED <<f_read, f_eof>>
    /\ UNCHANGED <<lockVars, daemonVars, clientVars, startVars, selVars, dispatchVars, moreVars>>

\* the writer goes away: the stream ends at a frame boundary (k = 0) or
\* after the first k bytes of a frame, inside its prefix or its body
WriteCutShort(bytes, k) ==
    /\ StreamOpen
    /\ ~f_eof
    /\ k < Len(WriteFrame(bytes).out)
    /\ f_stream' = f_stream \o SubSeq(WriteFrame(bytes).out, 1, k)
    /\ f_eof' = TRUE
    /\ UNCHANGED <<f_written, f_read, f_last>>
    /\ UNCHANGED <<lockVars, daemonVars, clientVars, startVars, selVars, dispatchVars, moreVars>>

\* read_exact returns: a frame is on the stream, or the stream has ended
\* (frames are written whole, so an open stream holds whole frames)
CanReadFrame == f_stream # <<>> \/ f_eof

\* read_frame(&mut stream, max_len)
ReadFrameStep(max_len) ==
    /\ StreamOpen
    /\ CanReadFrame
    /\ LET r == ReadFrame(f_stream, max_len) IN
       /\ f_stream' = r.rest
       /\ f_read' = IF r.ok THEN Append(f_read, r.bytes) ELSE f_read
       /\ f_last' = [op |-> "read", ok |-> r.ok, err |-> r.err, max_len |-> max_len,
                   taken |-> Len(f_stream) - Len(r.rest)]
    /\ UNCHANGED <<f_written, f_eof>>
    /\ UNCHANGED <<lockVars, daemonVars, clientVars, startVars, selVars, dispatchVars, moreVars>>

NextFraming ==
    \/ \E bytes \in Payloads : WriteFrameStep(bytes)
    \/ \E max_len \in MaxLens : ReadFrameStep(max_len)
    \/ \E bytes \in Payloads : \E k \in 0..(LenBytes + MaxPayload) : WriteCutShort(bytes, k)

\* ========================================================================
\* Message encoding (capit-ipc/src/protocol.rs, postcard wire format)
\* ========================================================================
\* the variants of each enum in declaration order: postcard writes the
\* position of the variant, counted from 0, as a varint
Variants ==
    [Wire |-> <<"Response", "Event">>,
     Request |-> <<"Hello", "ListOutputs", "GetUiConfig", "StartCapture",
                   "SetSelection", "ConfirmSelection", "Cancel", "Status">>,
     Response |-> <<"Ok", "Outputs", "UiConfig", "Status", "Error">>,
     Event |-> <<"CaptureStarted", "CaptureFinished", "CaptureFailed",
                 "SelectionPreview">>,
     Mode |-> <<"Region", "Screen", "Window", "Record">>,
     Target |-> <<"AllScreens", "OutputName", "OutputIndex", "ActiveWindow">>]

VariantIndex(vs, t) == (CHOOSE i \in 1..Len(vs) : vs[i] = t) - 1

\* values of the protocol types the daemon model has no use for
OutputIndexOf(i) == [k |-> "OutputIndex", name |-> "", index |-> i]
ActiveWindow == [k |-> "ActiveWindow", name |-> ""]
NoName == "None"
OutputInfoOf(n, r, s) ==
    [name |-> n, x |-> r.x, y |-> r.y, width |-> r.w, height |-> r.h, scale |-> s]
RespUiConfigOf(a, b) ==
    [t |-> "UiConfig", cfg |-> [accent_colour |-> a, bar_background_colour |-> b]]
RespStatusOf(r, job) == [t |-> "Status", running |-> r, active_job |-> job]

\* the strings of the model and their UTF-8 bytes
CodecStrings == {"", "e", "DP-1"}
Utf8(s) ==
    CASE s = "" -> <<>>
      [] s = "e" -> <<101>>
      [] s = "DP-1" -> <<68, 80, 45, 49>>

\* ---- serialising: postcard::to_allocvec -------------------------------
\* unsigned integers are LEB128 varints
RECURSIVE VarInt(_)
VarInt(n) == IF n < 128 THEN <<n>> ELSE <<128 + (n % 128)>> \o VarInt(n \div 128)

\* signed integers are zigzag encoded, then written as varints
ZigZag(n) == IF n >= 0 THEN 2 * n ELSE -2 * n - 1

\* the bytes of a Request, a Response or an Event: the variant index, then
\* the fields in declaration order; Option<T> is 0 for None, 1 and the value
\* for Some; a Vec is its length and its elements
EncValue(ty, val) ==
    LET
        EncI32(n) == VarInt(ZigZag(n))
        EncBool(b) == <<IF b THEN 1 ELSE 0>>
        EncStr(s) == VarInt(Len(Utf8(s))) \o Utf8(s)
        EncMode(m) == VarInt(VariantIndex(Variants.Mode, m))
        EncRect(r) == EncI32(r.x) \o EncI32(r.y) \o EncI32(r.w) \o EncI32(r.h)

        EncTarget(tg) ==
            VarInt(VariantIndex(Variants.Target, tg.k)) \o
            (CASE tg.k = "OutputName" -> EncStr(tg.name)
               [] tg.k = "OutputIndex" -> VarInt(tg.index)
               [] OTHER -> <<>>)

        EncOptTarget(tg) == IF tg = NoTarget THEN <<0>> ELSE <<1>> \o EncTarget(tg)
        EncOptMode(j) == IF j = NoJob THEN <<0>> ELSE <<1>> \o EncMode(j)
        EncOptStr(n) == IF n = NoName THEN <<0>> ELSE <<1>> \o EncStr(n)

        EncOutputInfo(o) ==
            EncOptStr(o.name) \o EncI32(o.x) \o EncI32(o.y) \o EncI32(o.width)
            \o EncI32(o.height) \o EncI32(o.scale)

        RECURSIVE EncOutputInfos(_)
        EncOutputInfos(os) ==
            IF os = <<>> THEN <<>> ELSE EncOutputInfo(Head(os)) \o EncOutputInfos(Tail(os))

        EncRequest(req) ==
            VarInt(VariantIndex(Variants.Request, req.t)) \o
            (CASE req.t = "Hello" -> VarInt(req.version)
               [] req.t = "StartCapture" ->
                    EncMode(req.mode) \o EncOptTarget(req.target) \o EncBool(req.with_ui)
               [] req.t = "SetSelection" -> EncRect(req.rect)
               [] OTHER -> <<>>)

        EncResponse(resp) ==
            VarInt(VariantIndex(Variants.Response, resp.t)) \o
            (CASE resp.t = "Outputs" -> VarInt(Len(resp.outputs)) \o EncOutputInfos(resp.outputs)
               [] resp.t = "UiConfig" ->
                    VarInt(resp.cfg.accent_colour) \o VarInt(resp.cfg.bar_background_colour)
               [] resp.t = "Status" -> EncBool(resp.running) \o EncOptMode(resp.active_job)
               [] resp.t = "Error" -> EncStr(resp.message)
               [] OTHER -> <<>>)

        EncEvent(ev) ==
            VarInt(VariantIndex(Variants.Event, ev.t)) \o
            (CASE ev.t = "CaptureStarted" -> EncMode(ev.mode)
               [] ev.t = "CaptureFinished" -> EncStr(ev.path)
               [] ev.t = "CaptureFailed" -> EncStr(ev.message)
               [] ev.t = "SelectionPreview" -> EncRect(ev.rect))
    IN CASE ty = "Request" -> EncRequest(val)
         [] ty = "Response" -> EncResponse(val)
         [] ty = "Event" -> EncEvent(val)

\* an envelope written without the variant of Wire
EncWireUntagged(f) == EncValue(f.wire, f.body)

\* ClientConn::send / send_event: the value is wrapped in Wire
EncWire(f) == VarInt(VariantIndex(Variants.Wire, f.wire)) \o EncValue(f.wire, f.body)

\* ---- deserialising: postcard::from_bytes ------------------------------
\* a step of the deserializer: the value read and the bytes left, or an error
Parsed(v, rest) == [ok |-> TRUE, v |-> v, rest |-> rest]
DecFail == [ok |-> FALSE, v |-> "error", rest |-> <<>>]
AndThen(r, F(_, _)) == IF r.ok THEN F(r.v, r.rest) ELSE DecFail

RECURSIVE DecVarInt(_)
DecVarInt(b) ==
    IF b = <<>> THEN DecFail
    ELSE IF Head(b) < 128 THEN Parsed(Head(b), Tail(b))
    ELSE AndThen(DecVarInt(Tail(b)),
                 LAMBDA hi, rest : Parsed((Head(b) - 128) + 128 * hi, rest))

UnZigZag(z) == IF z % 2 = 0 THEN z \div 2 ELSE -((z + 1) \div 2)

\* a Request, a Response or an Event read off the bytes: the variant, an
\* index past the last one being an error, then the fields
DecValue(ty, bytes) ==
    LET
        DecI32(b) == AndThen(DecVarInt(b), LAMBDA z, rest : Parsed(UnZigZag(z), rest))
        DecBool(b) ==
            IF b = <<>> \/ Head(b) > 1 THEN DecFail ELSE Parsed(Head(b) = 1, Tail(b))
        DecStr(b) ==
            AndThen(DecVarInt(b), LAMBDA n, rest :
                IF Len(rest) < n \/ ~\E s \in CodecStrings : Utf8(s) = SubSeq(rest, 1, n)
                THEN DecFail
                ELSE Parsed(CHOOSE s \in CodecStrings : Utf8(s) = SubSeq(rest, 1, n),
                            SubSeq(rest, n + 1, Len(rest))))

        \* the variant of an enum: an index past the last variant is an error
        DecVariant(vs, b) ==
            AndThen(DecVarInt(b), LAMBDA i, rest :
                IF i < Len(vs) THEN Parsed(vs[i + 1], rest) ELSE DecFail)

        DecMode(b) == DecVariant(Variants.Mode, b)

        DecRect(b) ==
            AndThen(DecI32(b), LAMBDA x, r1 :
            AndThen(DecI32(r1), LAMBDA y, r2 :
            AndThen(DecI32(r2), LAMBDA w, r3 :
            AndThen(DecI32(r3), LAMBDA h, r4 :
                Parsed([x |-> x, y |-> y, w |-> w, h |-> h], r4)))))

        DecTarget(b) ==
            AndThen(DecVariant(Variants.Target, b), LAMBDA k, rest :
                CASE k = "AllScreens" -> Parsed(AllScreens, rest)
                  [] k = "ActiveWindow" -> Parsed(ActiveWindow, rest)
                  [] k = "OutputName" ->
                       AndThen(DecStr(rest), LAMBDA n, r2 : Parsed(OutputName(n), r2))
                  [] k = "OutputIndex" ->
                       AndThen(DecVarInt(rest), LAMBDA i, r2 : Parsed(OutputIndexOf(i), r2)))

        \* Option<T>: the tag byte, then the value of Some
        DecOptTag(b) == IF b = <<>> \/ Head(b) > 1 THEN DecFail ELSE Parsed(Head(b), Tail(b))
        DecOptTarget(b) ==
            AndThen(DecOptTag(b), LAMBDA tag, rest :
                IF tag = 0 THEN Parsed(NoTarget, rest) ELSE DecTarget(rest))
        DecOptMode(b) ==
            AndThen(DecOptTag(b), LAMBDA tag, rest :
                IF tag = 0 THEN Parsed(NoJob, rest) ELSE DecMode(rest))
        DecOptStr(b) ==
            AndThen(DecOptTag(b), LAMBDA tag, rest :
                IF tag = 0 THEN Parsed(NoName, rest) ELSE DecStr(rest))

        DecOutputInfo(b) ==
            AndThen(DecOptStr(b), LAMBDA n, r1 :
            AndThen(DecI32(r1), LAMBDA x, r2 :
            AndThen(DecI32(r2), LAMBDA y, r3 :
            AndThen(DecI32(r3), LAMBDA w, r4 :
            AndThen(DecI32(r4), LAMBDA h, r5 :
            AndThen(DecI32(r5), LAMBDA s, r6 :
                Parsed([name |-> n, x |-> x, y |-> y, width |-> w, height |-> h,
                        scale |-> s], r6)))))))

        RECURSIVE DecOutputInfos(_, _)
        DecOutputInfos(b, n) ==
            IF n = 0 THEN Parsed(<<>>, b)
            ELSE AndThen(DecOutputInfo(b), LAMBDA o, r1 :
                 AndThen(DecOutputInfos(r1, n - 1), LAMBDA os, r2 :
                     Parsed(<<o>> \o os, r2)))

        DecRequest(b) ==
            AndThen(DecVariant(Variants.Request, b), LAMBDA t, rest :
                CASE t = "Hello" ->
                       AndThen(DecVarInt(rest), LAMBDA v, r1 : Parsed(Hello(v), r1))
                  [] t = "StartCapture" ->
                       AndThen(DecMode(rest), LAMBDA m, r1 :
                       AndThen(DecOptTarget(r1), LAMBDA tg, r2 :
                       AndThen(DecBool(r2), LAMBDA ui, r3 :
                           Parsed(StartCapture(m, tg, ui), r3))))
                  [] t = "SetSelection" ->
                       AndThen(DecRect(rest), LAMBDA r, r1 : Parsed(SetSelection(r), r1))
                  [] OTHER -> Parsed(Plain(t), rest))

        DecResponse(b) ==
            AndThen(DecVariant(Variants.Response, b), LAMBDA t, rest :
                CASE t = "Ok" -> Parsed(RespOk, rest)
                  [] t = "Outputs" ->
                       AndThen(DecVarInt(rest), LAMBDA n, r1 :
                       AndThen(DecOutputInfos(r1, n), LAMBDA os, r2 :
                           Parsed(RespOutputs(os), r2)))
                  [] t = "UiConfig" ->
                       AndThen(DecVarInt(rest), LAMBDA a, r1 :
                       AndThen(DecVarInt(r1), LAMBDA c, r2 :
                           Parsed(RespUiConfigOf(a, c), r2)))
                  [] t = "Status" ->
                       AndThen(DecBool(rest), LAMBDA r, r1 :
                       AndThen(DecOptMode(r1), LAMBDA j, r2 :
                           Parsed(RespStatusOf(r, j), r2)))
                  [] t = "Error" ->
                       AndThen(DecStr(rest), LAMBDA m, r1 : Parsed(RespError(m), r1)))

        DecEvent(b) ==
            AndThen(DecVariant(Variants.Event, b), LAMBDA t, rest :
                CASE t = "CaptureStarted" ->
                       AndThen(DecMode(rest), LAMBDA m, r1 : Parsed(CaptureStarted(m), r1))
                  [] t = "CaptureFinished" ->
                       AndThen(DecStr(rest), LAMBDA p, r1 : Parsed(CaptureFinished(p), r1))
                  [] t = "CaptureFailed" ->
                       AndThen(DecStr(rest), LAMBDA m, r1 : Parsed(CaptureFailed(m), r1))
                  [] t = "SelectionPreview" ->
                       AndThen(DecRect(rest), LAMBDA r, r1 : Parsed(SelectionPreview(r), r1)))
    IN CASE ty = "Request" -> DecRequest(bytes)
         [] ty = "Response" -> DecResponse(bytes)
         [] ty = "Event" -> DecEvent(bytes)

\* IpcClient::recv_wire: the frame is deserialised as a Wire
DecWire(b) ==
    AndThen(DecVarInt(b), LAMBDA i, rest :
        IF i >= Len(Variants.Wire) THEN DecFail
        ELSE AndThen(DecValue(Variants.Wire[i + 1], rest), LAMBDA v, r1 :
                 Parsed([wire |-> Variants.Wire[i + 1], body |-> v], r1)))

\* from_bytes hands the value back and drops what is left of the slice
FromBytes(r) == [called |-> TRUE, ok |-> r.ok, v |-> r.v]

\* ---- the two directions of a connection -------------------------------
\* what is passed to to_allocvec: a Request (client to server) or a Wire
\* (server to client)
CodecMsgs ==
    LET U32s == {0, 3, 300}
        CodecRects == {[x |-> 0, y |-> 0, w |-> 1, h |-> 1],
                       [x |-> -3, y |-> 70, w |-> 200, h |-> 100]}
        CodecTargets ==
            {NoTarget, AllScreens, ActiveWindow}
            \cup {OutputName(n) : n \in CodecStrings}
            \cup {OutputIndexOf(i) : i \in U32s}
        OutputInfos == {OutputInfoOf(n, r, 1) : n \in {NoName, "DP-1"}, r \in CodecRects}
        OutputLists ==
            {<<>>} \cup {<<o>> : o \in OutputInfos}
            \cup {<<o, p>> : o \in OutputInfos, p \in OutputInfos}
        CodecRequests ==
            {Hello(v) : v \in U32s}
            \cup {Plain(t) : t \in {"ListOutputs", "GetUiConfig", "ConfirmSelection",
                                    "Cancel", "Status"}}
            \cup {StartCapture(m, tg, ui) : m \in Modes, tg \in CodecTargets, ui \in BOOLEAN}
            \cup {SetSelection(r) : r \in CodecRects}
        CodecResponses ==
            {RespOk}
            \cup {RespOutputs(o) : o \in OutputLists}
            \cup {RespUiConfigOf(a, b) : a \in U32s, b \in U32s}
            \cup {RespStatusOf(r, j) : r \in BOOLEAN, j \in Modes \cup {NoJob}}
            \cup {RespError(m) : m \in CodecStrings}
        CodecEvents ==
            {CaptureStarted(m) : m \in Modes}
            \cup {CaptureFinished(p) : p \in CodecStrings}
            \cup {CaptureFailed(m) : m \in CodecStrings}
            \cup {SelectionPreview(r) : r \in CodecRects}
    IN {[dir |-> "c2s", val |-> req] : req \in CodecRequests}
       \cup {[dir |-> "s2c", val |-> WireResponse(r)] : r \in CodecResponses}
       \cup {[dir |-> "s2c", val |-> WireEvent(e)] : e \in CodecEvents}

NoMsg == [dir |-> "none", val |-> "none"]
NoDec == [called |-> FALSE, ok |-> FALSE, v |-> "not decoded"]

Encode(msg) == IF msg.dir = "c2s" THEN EncValue("Request", msg.val) ELSE EncWire(msg.val)
Decode(dir, b) == FromBytes(IF dir = "c2s" THEN DecValue("Request", b) ELSE DecWire(b))

CodecInit ==
    /\ c_msg = NoMsg
    /\ c_bytes = <<>>
    /\ c_dec = NoDec
    /\ c_n = 0

\* IpcClient::call / ClientConn::send / send_event serialise a value
EncodeStep(msg) ==
    /\ c_n < MaxMsgs
    /\ c_msg' = msg
    /\ c_bytes' = Encode(msg)
    /\ c_dec' = NoDec
    /\ c_n' = c_n + 1
    /\ UNCHANGED <<lockVars, daemonVars, clientVars, startVars, selVars, dispatchVars, frameVars,
                   geoVars, overlayVars>>

\* ClientConn::recv / IpcClient::recv_wire deserialise the payload
DecodeStep ==
    /\ c_msg.dir # "none"
    /\ ~c_dec.called
    /\ c_dec' = Decode(c_msg.dir, c_bytes)
    /\ UNCHANGED <<c_msg, c_bytes, c_n>>
    /\ UNCHANGED <<lockVars, daemonVars, clientVars, startVars, selVars, dispatchVars, frameVars,
                   geoVars, overlayVars>>

NextCodec ==
    \/ \E msg \in CodecMsgs : EncodeStep(msg)
    \/ DecodeStep

\* ========================================================================
\* Region overlay geometry (capitd/src/overlay_region/model.rs)
\* ========================================================================
HANDLE_SIZE == 12
HANDLE_HIT == 14
MIN_W == 8
MIN_H == 8

RectLocal(x, y, w, h) == [x |-> x, y |-> y, w |-> w, h |-> h]
BoundsOf(min_x, min_y, max_x, max_y) ==
    [min_x |-> min_x, min_y |-> min_y, max_x |-> max_x, max_y |-> max_y]

\* i32::max, i32::min, i32::abs
MaxOf(a, b) == IF a >= b THEN a ELSE b
MinOf(a, b) == IF a <= b THEN a ELSE b
AbsOf(a) == IF a >= 0 THEN a ELSE -a

\* a clamp_to that tests the right and bottom overflow with the width and
\* height it was given and raises them to the minimum afterwards
ClampToLateMin(r, b) ==
    LET x1 == IF r.x < b.min_x THEN b.min_x ELSE r.x
        y1 == IF r.y < b.min_y THEN b.min_y ELSE r.y
        x2 == IF x1 + r.w > b.max_x THEN MaxOf(b.max_x - r.w, b.min_x) ELSE x1
        y2 == IF y1 + r.h > b.max_y THEN MaxOf(b.max_y - r.h, b.min_y) ELSE y1
    IN RectLocal(x2, y2, MaxOf(r.w, MIN_W), MaxOf(r.h, MIN_H))

\* RectLocal::clamp_to: the statements in the order of the code
ClampTo(r, b) ==
    LET w == MaxOf(r.w, MIN_W)
        h == MaxOf(r.h, MIN_H)
        x1 == IF r.x < b.min_x THEN b.min_x ELSE r.x
        y1 == IF r.y < b.min_y THEN b.min_y ELSE r.y
        x2 == IF x1 + w > b.max_x THEN MaxOf(b.max_x - w, b.min_x) ELSE x1
        y2 == IF y1 + h > b.max_y THEN MaxOf(b.max_y - h, b.min_y) ELSE y1
    IN RectLocal(x2, y2, w, h)

\* RectLocal::contains
Contains(r, px, py) ==
    px >= r.x /\ py >= r.y /\ px < r.x + r.w /\ py < r.y + r.h

\* DragMode and ResizeDir
ResizeDir(l, r, t, b) == [left |-> l, right |-> r, top |-> t, bottom |-> b]
NoDir == ResizeDir(FALSE, FALSE, FALSE, FALSE)
ResizeDirs == [left : BOOLEAN, right : BOOLEAN, top : BOOLEAN, bottom : BOOLEAN]
DragNone == [kind |-> "None", dir |-> NoDir]
DragMove == [kind |-> "Move", dir |-> NoDir]
DragResize(dir) == [kind |-> "Resize", dir |-> dir]
DragModes == {DragNone, DragMove} \cup {DragResize(dir) : dir \in ResizeDirs}

\* ResizeDir::any
AnyDir(dir) == dir.left \/ dir.right \/ dir.top \/ dir.bottom

Dist2(ax, ay, bx, by) == (ax - bx) * (ax - bx) + (ay - by) * (ay - by)

\* the corners in the order the code tries them: TL, TR, BL, BR
CornerDirs ==
    <<ResizeDir(TRUE, FALSE, TRUE, FALSE), ResizeDir(FALSE, TRUE, TRUE, FALSE),
      ResizeDir(TRUE, FALSE, FALSE, TRUE), ResizeDir(FALSE, TRUE, FALSE, TRUE)>>
CornerDist(r, px, py) ==
    <<Dist2(px, py, r.x, r.y), Dist2(px, py, r.x + r.w, r.y),
      Dist2(px, py, r.x, r.y + r.h), Dist2(px, py, r.x + r.w, r.y + r.h)>>

\* the loop `if d < best.0 { best = (d, idx) }`: the first of the nearest
BestCorner(d) ==
    CHOOSE i \in 1..4 : /\ \A j \in 1..4 : d[i] <= d[j]
                        /\ \A j \in 1..(i - 1) : d[j] > d[i]

\* the radius of the corner handles
CornerRadius == MaxOf(HANDLE_HIT, HANDLE_SIZE \div 2)

\* corner_hit: Some(dir) or None
CornerHit(r, px, py) ==
    LET d == CornerDist(r, px, py)
        i == BestCorner(d)
    IN IF d[i] <= CornerRadius * CornerRadius
       THEN [some |-> TRUE, dir |-> CornerDirs[i]]
       ELSE [some |-> FALSE, dir |-> NoDir]

\* a loop that never replaces its first candidate
NearestCornerDirFirst(r, px, py) == CornerDirs[1]

\* nearest_corner_dir
NearestCornerDir(r, px, py) == CornerDirs[BestCorner(CornerDist(r, px, py))]

\* an edge band twice as wide
NearWide(a, b) == AbsOf(a - b) <= 2 * HANDLE_HIT

\* (a - b).abs() <= HANDLE_HIT
Near(a, b) == AbsOf(a - b) <= HANDLE_HIT

\* a hit_test that tries the edge bands before the corner handles
HitTestEdgesFirst(r, px, py) ==
    LET c == CornerHit(r, px, py)
        alongY == py >= r.y - HANDLE_HIT /\ py <= r.y + r.h + HANDLE_HIT
        alongX == px >= r.x - HANDLE_HIT /\ px <= r.x + r.w + HANDLE_HIT
        dir == ResizeDir(Near(px, r.x) /\ alongY, Near(px, r.x + r.w) /\ alongY,
                         Near(py, r.y) /\ alongX, Near(py, r.y + r.h) /\ alongX)
    IN IF AnyDir(dir) THEN DragResize(dir)
       ELSE IF c.some THEN DragResize(c.dir)
       ELSE IF Contains(r, px, py) THEN DragMove
       ELSE DragResize(NearestCornerDir(r, px, py))

\* hit_test
HitTest(r, px, py) ==
    LET c == CornerHit(r, px, py)
        alongY == py >= r.y - HANDLE_HIT /\ py <= r.y + r.h + HANDLE_HIT
        alongX == px >= r.x - HANDLE_HIT /\ px <= r.x + r.w + HANDLE_HIT
        dir == ResizeDir(Near(px, r.x) /\ alongY, Near(px, r.x + r.w) /\ alongY,
                         Near(py, r.y) /\ alongX, Near(py, r.y + r.h) /\ alongX)
    IN IF c.some THEN DragResize(c.dir)
       ELSE IF AnyDir(dir) THEN DragResize(dir)
       ELSE IF Contains(r, px, py) THEN DragMove
       ELSE DragResize(NearestCornerDir(r, px, py))

\* the four edges as a record
EdgesOf(l, r, t, b) == [left |-> l, right |-> r, top |-> t, bottom |-> b]

\* a resize that moves the flagged edges by the cursor's travel since the grab
ResizeEdgesRelative(dir, cursor, grab_cursor, grab_rect) ==
    LET dx == cursor[1] - grab_cursor[1]
        dy == cursor[2] - grab_cursor[2]
        l == IF dir.left THEN grab_rect.x + dx ELSE grab_rect.x
        r == IF dir.right THEN grab_rect.x + grab_rect.w + dx ELSE grab_rect.x + grab_rect.w
        t == IF dir.top THEN grab_rect.y + dy ELSE grab_rect.y
        b == IF dir.bottom THEN grab_rect.y + grab_rect.h + dy ELSE grab_rect.y + grab_rect.h
    IN EdgesOf(MinOf(l, r), MaxOf(l, r), MinOf(t, b), MaxOf(t, b))

\* apply_drag, Resize arm up to the swaps: the edges before any clamping
ResizeEdges(dir, cursor, grab_cursor, grab_rect) ==
    LET l == IF dir.left THEN cursor[1] ELSE grab_rect.x
        r == IF dir.right THEN cursor[1] ELSE grab_rect.x + grab_rect.w
        t == IF dir.top THEN cursor[2] ELSE grab_rect.y
        b == IF dir.bottom THEN cursor[2] ELSE grab_rect.y + grab_rect.h
    IN EdgesOf(IF l > r THEN r ELSE l, IF l > r THEN l ELSE r,
               IF t > b THEN b ELSE t, IF t > b THEN t ELSE b)

\* the RectLocal built from the edges, width and height raised to the minimum
RectOfEdges(e) ==
    RectLocal(e.left, e.top, MaxOf(e.right - e.left, MIN_W), MaxOf(e.bottom - e.top, MIN_H))

\* an apply_drag that leaves out the final clamp_to
ApplyDragUnclamped(mode, cursor, grab_cursor, grab_rect, b) ==
    CASE mode.kind = "None" -> grab_rect
      [] mode.kind = "Move" ->
           [grab_rect EXCEPT !.x = @ + (cursor[1] - grab_cursor[1]),
                             !.y = @ + (cursor[2] - grab_cursor[2])]
      [] mode.kind = "Resize" ->
           RectOfEdges(ResizeEdges(mode.dir, cursor, grab_cursor, grab_rect))

\* an apply_drag that clamps after the match, in every arm
ApplyDragNoneClamped(mode, cursor, grab_cursor, grab_rect, b) ==
    ClampTo(ApplyDragUnclamped(mode, cursor, grab_cursor, grab_rect, b), b)

\* apply_drag
ApplyDrag(mode, cursor, grab_cursor, grab_rect, b) ==
    CASE mode.kind = "None" -> grab_rect
      [] mode.kind = "Move" ->
           ClampTo([grab_rect EXCEPT !.x = @ + (cursor[1] - grab_cursor[1]),
                                     !.y = @ + (cursor[2] - grab_cursor[2])], b)
      [] mode.kind = "Resize" ->
           ClampTo(RectOfEdges(ResizeEdges(mode.dir, cursor, grab_cursor, grab_rect)), b)

\* ---- the inputs of the model -------------------------------------------
GeoBounds ==
    {BoundsOf(0, 0, 200, 160), BoundsOf(-40, -40, 60, 60), BoundsOf(0, 0, 6, 6)}
GeoRects ==
    {RectLocal(10, 10, 100, 80), RectLocal(0, 0, 8, 8), RectLocal(150, 100, 50, 60),
     RectLocal(-5, 20, 4, 300), RectLocal(194, 150, 4, 4), RectLocal(60, 0, 10, 100)}
GeoXs == {-20, 0, 5, 15, 25, 60, 110, 150, 230}
GeoYs == {-20, 0, 5, 15, 25, 50, 90, 130, 200}
GeoPoints == {<<x, y>> : x \in GeoXs, y \in GeoYs}
GrabCursors == {<<110, 90>>, <<0, 0>>}

NoGeoOp == [op |-> "none"]

\* before the overlay is built: RectLocal::default()
GeoInit ==
    /\ g_rect = RectLocal(0, 0, 0, 0)
    /\ g_bounds = BoundsOf(0, 0, 0, 0)
    /\ g_last = [op |-> "new"]

\* the desktop bounds and the selection the functions are called with
GeoSetup(r, b) ==
    /\ g_last.op = "new"
    /\ g_rect' = r
    /\ g_bounds' = b
    /\ g_last' = NoGeoOp
    /\ UNCHANGED <<lockVars, daemonVars, clientVars, startVars, selVars, dispatchVars,
                   frameVars, codecVars, overlayVars>>

\* r.clamp_to(min_x, min_y, max_x, max_y), once and then once more on the
\* result
ClampStep ==
    /\ g_last.op \in {"none", "clamp_to"}
    /\ g_last.op = "clamp_to" => g_last.n = 1
    /\ g_last' = IF g_last.op = "none"
                 THEN [op |-> "clamp_to", n |-> 1, arg |-> g_rect,
                       out |-> ClampTo(g_rect, g_bounds)]
                 ELSE [op |-> "clamp_to", n |-> 2, arg |-> g_last.out,
                       out |-> ClampTo(g_last.out, g_bounds)]
    /\ UNCHANGED <<g_rect, g_bounds>>
    /\ UNCHANGED <<lockVars, daemonVars, clientVars, startVars, selVars, dispatchVars,
                   frameVars, codecVars, overlayVars>>

\* hit_test(selection, px, py)
HitTestStep(p) ==
    /\ g_last.op = "none"
    /\ g_last' = [op |-> "hit_test", px |-> p[1], py |-> p[2],
                  out |-> HitTest(g_rect, p[1], p[2])]
    /\ UNCHANGED <<g_rect, g_bounds>>
    /\ UNCHANGED <<lockVars, daemonVars, clientVars, startVars, selVars, dispatchVars,
                   frameVars, codecVars, overlayVars>>

\* apply_drag(drag_mode, cursor, grab_cursor, grab_rect, bounds)
ApplyDragStep(mode, cursor, grab_cursor) ==
    /\ g_last.op = "none"
    /\ g_last' = [op |-> "apply_drag", mode |-> mode, cursor |-> cursor,
                  grab_cursor |-> grab_cursor, grab_rect |-> g_rect,
                  out |-> ApplyDrag(mode, cursor, grab_cursor, g_rect, g_bounds)]
    /\ UNCHANGED <<g_rect, g_bounds>>
    /\ UNCHANGED <<lockVars, daemonVars, clientVars, startVars, selVars, dispatchVars,
                   frameVars, codecVars, overlayVars>>

NextGeometry ==
    \/ \E r \in GeoRects, b \in GeoBounds : GeoSetup(r, b)
    \/ ClampStep
    \/ \E p \in GeoPoints : HitTestStep(p)
    \/ \E mode \in DragModes, cursor \in GeoPoints, grab_cursor \in GrabCursors :
           ApplyDragStep(mode, cursor, grab_cursor)

\* ========================================================================
\* Event loop of the region overlay (capitd/src/overlay_region/app.rs,
\* run.rs, render.rs, surfaces.rs)
\* ========================================================================
BTN_LEFT == 272
KEY_ESC == 1
KEY_ENTER == 28

\* the outputs the overlay was started with, one surface each
OverlayOutputs ==
    <<[x |-> 0, y |-> 0, width |-> 800, height |-> 600],
      [x |-> 800, y |-> 0, width |-> 800, height |-> 600]>>
SurfaceIds == 1..Len(OverlayOutputs)

\* Option<Option<Rect>>
NoResult == [t |-> "None"]
ResultCancelled == [t |-> "Some(None)"]
ResultRect(r) == [t |-> "Some(Some)", rect |-> r]

\* a buffer nothing has been drawn into
NotDrawn == RectLocal(0, 0, 0, 0)

\* App::new for target output 1, and the OutputSurface try_create_surfaces
\* pushes for every output (buffer of the output's size, not busy, not
\* configured)
AppNew ==
    LET t == OverlayOutputs[1]
        Clamp(v, lo, hi) == IF v < lo THEN lo ELSE IF v > hi THEN hi ELSE v
        init_w == Clamp(t.width \div 2, 260, MaxOf(t.width, 1))
        init_h == Clamp(t.height \div 2, 180, MaxOf(t.height, 1))
        init_x == t.x + (t.width - init_w) \div 2
        init_y == t.y + (t.height - init_h) \div 2
        least(S) == CHOOSE v \in S : \A u \in S : v <= u
        most(S) == CHOOSE v \in S : \A u \in S : v >= u
    IN [bounds |-> BoundsOf(least({OverlayOutputs[i].x : i \in SurfaceIds}),
                            least({OverlayOutputs[i].y : i \in SurfaceIds}),
                            most({OverlayOutputs[i].x + OverlayOutputs[i].width : i \in SurfaceIds}),
                            most({OverlayOutputs[i].y + OverlayOutputs[i].height : i \in SurfaceIds})),
        current_output_idx |-> 0,
        cursor |-> <<init_x + init_w \div 2, init_y + init_h \div 2>>,
        selection |-> RectLocal(init_x, init_y, MaxOf(init_w, MIN_W), MaxOf(init_h, MIN_H)),
        drag_mode |-> DragNone,
        grab_cursor |-> <<0, 0>>,
        grab_rect |-> RectLocal(0, 0, 0, 0),
        pending_redraw |-> TRUE,
        result |-> NoResult,
        surfaces |-> [i \in SurfaceIds |->
                        [configured |-> FALSE, busy |-> FALSE, buf |-> 1,
                         size |-> <<MaxOf(OverlayOutputs[i].width, 1),
                                    MaxOf(OverlayOutputs[i].height, 1)>>,
                         drawn |-> NotDrawn]]]

\* App::cancel
Cancel(app) == [app EXCEPT !.result = ResultCancelled]

\* App::confirm
Confirm(app) == [app EXCEPT !.result = ResultRect(ClampTo(app.selection, app.bounds))]

\* App::is_finished
IsFinished(app) == app.result # NoResult

\* redraw_all: every configured surface whose buffer is not busy is drawn
\* with the selection, attached and committed; pending_redraw is set for a
\* busy buffer inside the loop and cleared after it
RedrawAll(app) ==
    [app EXCEPT
        !.surfaces = [i \in SurfaceIds |->
                        IF ~app.surfaces[i].configured \/ app.surfaces[i].busy
                        THEN app.surfaces[i]
                        ELSE [app.surfaces[i] EXCEPT !.drawn = app.selection, !.busy = TRUE]],
        !.pending_redraw = FALSE]

\* a request_redraw that calls redraw_all whatever the buffers are doing
RequestRedrawUnchecked(app) == RedrawAll(app)

\* App::request_redraw
RequestRedraw(app) ==
    IF \E i \in SurfaceIds : app.surfaces[i].busy
    THEN [app EXCEPT !.pending_redraw = TRUE]
    ELSE RedrawAll(app)

\* handle_layer_configure for surface idx; alloc tells whether ShmBuffer::new
\* succeeds
HandleLayerConfigure(app, idx, size, alloc) ==
    LET s == app.surfaces[idx]
        needs_resize == s.size # size
        s1 == IF needs_resize /\ size[1] > 0 /\ size[2] > 0 /\ alloc
              THEN [s EXCEPT !.buf = s.buf + 1, !.size = size, !.busy = FALSE,
                             !.drawn = NotDrawn]
              ELSE s
    IN [app EXCEPT !.surfaces[idx] = [s1 EXCEPT !.configured = TRUE]]

\* handle_buffer_release: the first surface that owns the buffer
HandleBufferRelease(app, idx, buf) ==
    IF app.surfaces[idx].buf = buf
    THEN [app EXCEPT !.surfaces[idx].busy = FALSE]
    ELSE app

\* Dispatch<ZwlrLayerSurfaceV1>, Dispatch<WlPointer>, Dispatch<WlKeyboard>
\* and Dispatch<WlBuffer> for App
DispatchEvent(app, ev) ==
    CASE ev.t = "Configure" ->
            LET a == HandleLayerConfigure(app, ev.idx, ev.size, ev.alloc)
            IN RequestRedraw([a EXCEPT !.selection = ClampTo(a.selection, a.bounds),
                                       !.pending_redraw = TRUE])
      [] ev.t = "Closed" -> Cancel(app)
      [] ev.t = "Enter" ->
            RequestRedraw([app EXCEPT
                !.current_output_idx = ev.idx,
                !.cursor = <<ev.p[1] + OverlayOutputs[ev.idx].x,
                             ev.p[2] + OverlayOutputs[ev.idx].y>>])
      [] ev.t = "Motion" ->
            IF app.current_output_idx = 0 THEN app
            ELSE LET o == OverlayOutputs[app.current_output_idx]
                     c == <<ev.p[1] + o.x, ev.p[2] + o.y>>
                 IN RequestRedraw([app EXCEPT
                        !.cursor = c,
                        !.selection = IF app.drag_mode.kind # "None"
                                      THEN ApplyDrag(app.drag_mode, c, app.grab_cursor,
                                                     app.grab_rect, app.bounds)
                                      ELSE app.selection])
      [] ev.t = "Button" ->
            IF ev.button # BTN_LEFT THEN app
            ELSE IF ev.pressed
                 THEN LET mode == HitTest(app.selection, app.cursor[1], app.cursor[2])
                          outside == /\ mode.kind = "Resize"
                                     /\ ~Contains(app.selection, app.cursor[1], app.cursor[2])
                      IN RequestRedraw([app EXCEPT
                            !.grab_rect = app.selection,
                            !.drag_mode = mode,
                            !.grab_cursor = IF outside
                                            THEN <<app.selection.x + app.selection.w,
                                                   app.selection.y + app.selection.h>>
                                            ELSE app.cursor])
                 ELSE RequestRedraw([app EXCEPT !.drag_mode = DragNone])
      [] ev.t = "Key" ->
            IF ~ev.pressed THEN app
            ELSE IF ev.key = KEY_ESC THEN Cancel(app)
            ELSE IF ev.key = KEY_ENTER THEN Confirm(app)
            ELSE app
      [] ev.t = "Release" ->
            LET a == HandleBufferRelease(app, ev.idx, ev.buf)
            IN IF a.pending_redraw THEN RequestRedraw(a) ELSE a

\* surface-local pointer positions and the sizes a compositor configures
PointerPoints == {<<400, 300>>, <<700, 500>>}
ConfigureSizes == {<<800, 600>>, <<800, 560>>}

\* the events the compositor can send next
OverlayEvents ==
    {[t |-> "Configure", idx |-> i, size |-> sz, alloc |-> al]
        : i \in SurfaceIds, sz \in ConfigureSizes, al \in BOOLEAN}
    \cup {[t |-> "Closed"]}
    \cup {[t |-> "Enter", idx |-> i, p |-> <<400, 300>>] : i \in SurfaceIds}
    \cup {[t |-> "Motion", p |-> p] : p \in PointerPoints}
    \cup {[t |-> "Button", button |-> b, pressed |-> pr] : b \in {BTN_LEFT, 273}, pr \in BOOLEAN}
    \cup {[t |-> "Key", key |-> k, pressed |-> pr] : k \in {KEY_ESC, KEY_ENTER, 30}, pr \in BOOLEAN}
    \cup {[t |-> "Release", idx |-> h[1], buf |-> h[2]] : h \in o_held}

NoEvent == [t |-> "none", pending |-> TRUE]

\* run_region_overlay at the first test of while !app.is_finished()
OverlayInit ==
    /\ o_app = AppNew
    /\ o_pc = "dispatch"
    /\ o_batch = 0
    /\ o_held = {}
    /\ o_last = NoEvent
    /\ o_out = NoResult
    /\ o_n = 0

\* blocking_dispatch hands one more event of the batch it read to the App
OvDispatch(ev) ==
    /\ o_pc = "dispatch"
    /\ o_n < MaxEvents
    /\ o_app' = DispatchEvent(o_app, ev)
    /\ o_held' = (IF ev.t = "Release" THEN o_held \ {<<ev.idx, ev.buf>>} ELSE o_held)
                 \cup {<<i, o_app'.surfaces[i].buf>> : i \in
                        {j \in SurfaceIds :
                            /\ o_app'.surfaces[j].busy
                            /\ \/ ~o_app.surfaces[j].busy
                               \/ o_app.surfaces[j].buf # o_app'.surfaces[j].buf
                               \/ (ev.t = "Release" /\ ev.idx = j
                                   /\ ev.buf = o_app.surfaces[j].buf)}}
    /\ o_last' = ev @@ [pending |-> o_app.pending_redraw]
    /\ o_batch' = 1
    /\ o_n' = o_n + 1
    /\ UNCHANGED <<o_pc, o_out>>
    /\ UNCHANGED <<lockVars, daemonVars, clientVars, startVars, selVars, dispatchVars,
                   frameVars, codecVars, geoVars>>

\* blocking_dispatch returns and the loop tests is_finished: another
\* blocking_dispatch, or Ok(app.result.unwrap_or(None))
OvReturn ==
    /\ o_pc = "dispatch"
    /\ o_batch > 0
    /\ IF IsFinished(o_app)
       THEN o_pc' = "exited" /\ o_out' = o_app.result
       ELSE UNCHANGED <<o_pc, o_out>>
    /\ o_batch' = 0
    /\ UNCHANGED <<o_app, o_held, o_last, o_n>>
    /\ UNCHANGED <<lockVars, daemonVars, clientVars, startVars, selVars, dispatchVars,
                   frameVars, codecVars, geoVars>>

NextOverlay ==
    \/ \E ev \in OverlayEvents : OvDispatch(ev)
    \/ OvReturn

\* ========================================================================
\* Specifications
\* ========================================================================
UnitInit == StartInit /\ SelInit /\ DispatchInit /\ FrameInit /\ CodecInit
    /\ GeoInit /\ OverlayInit

Init == LockInit /\ DaemonInit /\ ClientInit /\ UnitInit

\* the daemon and its peers
Next == NextDaemon
Spec == Init /\ [][Next]_vars

\* processes racing for the instance lock
SpecLock == Init /\ [][NextLock]_vars

\* one IpcClient and its peer
SpecClient == Init /\ [][NextClient]_vars

\* capitd processes started on one socket path; the lock file of a daemon
\* killed in an earlier session may still be there
InitStartup ==
    /\ lockFile \in {NoFile, LeftoverLock}
    /\ lpc = [p \in Pids |-> "idle"]
    /\ lread = [p \in Pids |-> NoPid]
    /\ lres = [p \in Pids |-> "none"]
    /\ lfound = [p \in Pids |-> "none"]
    /\ lcreate = [p \in Pids |-> "none"]
    /\ ldeadAtStart = [p \in Pids |-> {}]
    /\ DaemonInit /\ ClientInit /\ UnitInit
SpecStartup == InitStartup /\ [][NextStartup]_vars

\* a SelectionState driven through handle_request and take_active
SpecSelection == Init /\ [][NextSelection]_vars

\* handle_request on the requests of a connection
SpecDispatch == Init /\ [][NextDispatch]_vars

\* frames written and read on one stream
SpecFraming == Init /\ [][NextFraming]_vars

\* messages serialised and deserialised
SpecCodec == Init /\ [][NextCodec]_vars

\* the geometry functions of the region overlay on drawn inputs
SpecGeometry == Init /\ [][NextGeometry]_vars

\* the event loop of the region overlay
SpecOverlay == Init /\ [][NextOverlay]_vars

\* a step of the daemon's main thread
DaemonStep ==
    \/ DaemonStart
    \/ DaemonShutdown
    \/ DaemonAccept
    \/ DaemonHello
    \/ DaemonRecv
    \/ DaemonHandle

\* the daemon and its peers, the main thread of the daemon running whenever
\* it has a step to take; a peer may stay connected and silent for ever
SpecDaemonFair == Init /\ [][Next]_vars /\ WF_vars(DaemonStep)
\* ------------------------------------------------------------------------
\* Claims about the instance lock (checked under SpecLock)
\* ------------------------------------------------------------------------

\* the step in which process p runs the exclusive create
CreateStepOf(p) == lpc[p] = "create" /\ lpc'[p] # "create" /\ lcreate'[p] # "none"

\* C8: at most one process holds an InstanceLock for the socket path at any
\* time, for every interleaving of concurrent acquire_for_socket calls.
C8_AtMostOneHolder == Cardinality({p \in Pids : Holds(p)}) <= 1

\* C9: once the holder has crashed after its exclusive create succeeded, an
\* acquire_for_socket that starts afterwards never fails with AlreadyRunning
\* on the file the crashed process left behind.
C9_CrashSelfHeals ==
    [][\A p \in Pids :
         (CreateStepOf(p) /\ lres'[p] = "AlreadyRunning" /\ lockFile.exists)
            => lockFile.inode \notin ldeadAtStart[p]]_vars

\* C10 (as stated): a call whose staleness check found a lock file naming a
\* live process fails with AlreadyRunning and leaves the file unchanged,
\* unless the create fails for another reason, which is returned as Io.
C10_NonStaleAlwaysFails ==
    [][\A p \in Pids :
         (CreateStepOf(p) /\ lfound[p] = "live")
            => /\ lockFile' = lockFile
               /\ \/ lres'[p] = "AlreadyRunning" /\ lcreate'[p] = "AlreadyExists"
                  \/ lres'[p] = "Io" /\ lcreate'[p] = "other"]_vars

\* C10 (amended): a call whose staleness check found a lock file naming a
\* live process, and that still finds a file at lock_path when it runs the
\* exclusive create, does not acquire the lock and leaves the file with
\* unchanged content: AlreadyExists is returned as AlreadyRunning; a create
\* that fails for any other reason is returned as Io, never AlreadyRunning.
C10_NonStaleFailsWhilePresent ==
    [][\A p \in Pids :
         CreateStepOf(p)
            => /\ (lfound[p] = "live" /\ lockFile.exists)
                    => /\ lockFile' = lockFile
                       /\ \/ lres'[p] = "AlreadyRunning" /\ lcreate'[p] = "AlreadyExists"
                          \/ lres'[p] = "Io" /\ lcreate'[p] = "other"
               /\ lcreate'[p] = "other" => lres'[p] = "Io"
               /\ lres'[p] = "AlreadyRunning" => lcreate'[p] = "AlreadyExists"]_vars

\* C10 witness: a call found the lock of a live holder and failed with
\* AlreadyRunning while that holder still holds the lock with its pid in
\* the file.
C10_Witness ==
    \E p \in Pids, q \in Pids :
        /\ lfound[p] = "live" /\ lres[p] = "AlreadyRunning"
        /\ Holds(q) /\ lockFile.exists /\ lockFile.content = q


\* C37: while a process holds an InstanceLock, the lock file it created is
\* not deleted by a step of another process (neither by the stale-lock
\* cleanup of a concurrent acquire_for_socket nor by the Drop of another
\* InstanceLock).
C37_HolderFileNeverDeleted ==
    [][\A p \in Pids :
         (Holds(p) /\ lpc'[p] = "held" /\ lockFile.exists /\ lockFile.inode = p)
            => (lockFile'.exists /\ lockFile'.inode = p)]_vars
\* ------------------------------------------------------------------------
\* Claims about the daemon (checked under Spec)
\* ------------------------------------------------------------------------

\* zero or more Event frames followed by exactly one Response frame
WellAnswered(s) ==
    /\ Len(s) >= 1
    /\ IsResponse(s[Len(s)])
    /\ \A i \in 1..(Len(s) - 1) : IsEvent(s[i])

OnlyEvents(s) == \A i \in 1..Len(s) : IsEvent(s[i])

\* C1 (as stated): every request the daemon has read after the handshake
\* and is no longer handling has exactly one Response frame, written after
\* the Event frames of that request (a failed write of the Response set
\* aside).
C1_EveryRequestAnswered ==
    (cur_req # NoReq /\ dpc # "handling" /\ dexit.at # "send") => WellAnswered(sent)

\* C1 (amended): a request read while the shutdown flag is not set gets its
\* Event frames first and exactly one Response frame last, before the next
\* request is read; run() returns instead when the write of the Response
\* fails; a request read with the shutdown flag set is dropped unanswered
\* and run() returns Ok.
C1_AnsweredUnlessShutdown ==
    (cur_req # NoReq /\ dpc # "handling")
        => \/ WellAnswered(sent)
           \/ /\ dpc = "exited" /\ dexit = ExitOk("session")
              /\ shutdown_flag /\ sent = <<>>
           \/ /\ dpc = "exited" /\ dexit = ExitErr("send", IoError)
              /\ OnlyEvents(sent)

\* C1 witness: a capture request was answered with two events and then the
\* Response, and the daemon is ready to read the next request.
C1_Witness ==
    /\ dpc = "loop" /\ cur_req.t = "StartCapture"
    /\ sent = <<WireEvent(CaptureStarted("Region")),
                WireEvent(CaptureFailed("capture failed")),
                WireResponse(RespError("capture failed"))>>

\* the step in which the daemon reads the first message and runs handle_hello
HelloStep == dpc = "hello" /\ dpc' # "hello" /\ first' # NoReq

\* C4: handle_hello on Hello{version}: equal to IPC_VERSION, Response::Ok is
\* written and the handshake succeeds (the write reaching an open peer);
\* unequal, it fails with VersionMismatch{client: version, server:
\* IPC_VERSION} and no frame is written.
C4_HandleHelloVersion ==
    [][(HelloStep /\ first'.t = "Hello")
         => IF first'.version = IPC_VERSION
            THEN IF PeerOpen(conn)
                 THEN sent' = <<WireResponse(RespOk)>> /\ dpc' = "loop" /\ dexit' = NoExit
                 ELSE sent' = <<>> /\ dexit' = ExitErr("handle_hello", IoError)
            ELSE /\ sent' = <<>>
                 /\ dpc' = "exited"
                 /\ dexit' = ExitErr("handle_hello",
                                     [kind |-> "VersionMismatch",
                                      client |-> first'.version, server |-> 3])]_vars

\* C4 witness: the handshake failed with VersionMismatch{client: 2, server: 3}
\* and nothing was written to the peer.
C4_Witness ==
    /\ first = Hello(2)
    /\ dexit.err = [kind |-> "VersionMismatch", client |-> 2, server |-> 3]
    /\ sent = <<>>

\* C5: a request is dispatched to handle_request only on a connection whose
\* first message was Hello with version IPC_VERSION.
C5_DispatchOnlyAfterHello ==
    dpc = "handling" => first = Hello(IPC_VERSION)

\* C6: a handshake failure (version mismatch or a failed read of the first
\* frame) does not end the daemon.
C6_HandshakeFailureNotFatal ==
    ~(dpc = "exited" /\ dexit.at \in {"hello_recv", "handle_hello"})

\* C7: a transport failure during a session (a failed read of the next
\* request, a failed write of a Response) does not end the daemon.
C7_TransportFailureNotFatal ==
    ~(dpc = "exited" /\ dexit.at = "send")

\* ------------------------------------------------------------------------
\* Claims about the IPC client (checked under SpecClient)
\* ------------------------------------------------------------------------

\* the payloads of a sequence of frames
Bodies(s) == [i \in 1..Len(s) |-> s[i].body]

\* the events among a sequence of frames, in order
EventsOf(s) == Bodies(SelectSeq(s, IsEvent))

IsPrefix(a, b) == Len(a) <= Len(b) /\ a = SubSeq(b, 1, Len(a))

\* C2: call writes exactly one request frame and returns only on a
\* Wire::Response: the Response returned is the first one read after the
\* request was written, and the frames read before it were all Events, each
\* appended to pending_events in arrival order.
C2_CallReturnsFirstResponse ==
    [][(cpc = "call" /\ cpc' = "idle")
         => /\ stream # <<>>
            /\ IsResponse(Head(stream))
            /\ Head(stream) = wireLog[nread + 1]
            /\ lastResp' = Head(stream).body
            /\ \A i \in (callStart.read + 1)..nread : IsEvent(wireLog[i])
            /\ pending_events' =
                 callStart.pending \o Bodies(SubSeq(wireLog, callStart.read + 1, nread))
            /\ reqWritten' = callStart.reqs + 1]_vars

\* C2 witness: a call returned a Response after buffering two events.
C2_Witness ==
    /\ cpc = "idle" /\ lastResp # NoResp
    /\ nread = callStart.read + 3
    /\ IsResponse(wireLog[nread])
    /\ Len(pending_events) = Len(callStart.pending) + 2
    /\ reqWritten = callStart.reqs + 1

\* C3: the events returned by successive next_event calls are a prefix of
\* the Event frames the peer wrote, in the same order; together with the
\* buffered events they are exactly the events read so far.
C3_EventsInOrder ==
    /\ IsPrefix(delivered, EventsOf(wireLog))
    /\ delivered \o pending_events = EventsOf(SubSeq(wireLog, 1, nread))

\* C3 witness: next_event returned one event around a call and one after
\* it, with a Response between them on the wire.
C3_Witness ==
    /\ Len(wireLog) >= 3
    /\ IsEvent(wireLog[1]) /\ IsResponse(wireLog[2]) /\ IsEvent(wireLog[3])
    /\ wireLog[1] # wireLog[3]
    /\ delivered = <<wireLog[1].body, wireLog[3].body>>
    /\ lastResp = wireLog[2].body


\* a frame is read from the wire inside next_event
NextEventReads == cpc = "next_event" /\ nread' = nread + 1

\* C28: with an empty FIFO next_event returns only on a Wire::Event; a
\* Wire::Response it reads is taken off the stream and dropped: next_event
\* goes on waiting, nothing is returned or buffered, and the Response a later
\* call returns is a frame read after that call wrote its request.
C28_NextEventDropsResponse ==
    [][/\ (NextEventReads /\ IsResponse(Head(stream))) =>
             /\ cpc' = "next_event"
             /\ stream' = Tail(stream)
             /\ delivered' = delivered
             /\ pending_events' = pending_events
             /\ lastResp' = lastResp
       /\ (cpc = "next_event" /\ cpc' = "idle") =>
             /\ IsEvent(Head(stream))
             /\ delivered' = Append(delivered, Head(stream).body)
       /\ (cpc = "call" /\ cpc' = "idle") =>
             /\ nread + 1 > callStart.read
             /\ lastResp' = wireLog[nread + 1].body]_vars

\* next_event read and dropped Response::Ok, returned the Event behind it,
\* and the call made afterwards returned the Error written later
C28_Witness ==
    /\ callStart.reqs = 0
    /\ callStart.read = 2
    /\ reqWritten = 1
    /\ wireLog[1] = WireResponse(RespOk)
    /\ IsEvent(wireLog[2])
    /\ delivered = <<wireLog[2].body>>
    /\ pending_events = <<>>
    /\ cpc = "idle"
    /\ nread = 3
    /\ lastResp = RespError("e")

\* ------------------------------------------------------------------------
\* Claims about daemon start-up (checked under SpecStartup)
\* ------------------------------------------------------------------------

\* process p takes a step of run()
StepOf(p) == lpc'[p] # lpc[p] \/ rpc'[p] # rpc[p]

\* a daemon that was serving when p started is still serving
StartedBesideRunning(p) == \E q \in servingAtStart[p] : Serving(q)

\* C11: a process started while a daemon is serving (and that stays up)
\* never changes the lock file or the socket file, never acquires the lock,
\* and ends with AlreadyRunning, turned into a clean exit of run(), or with
\* the I/O error of a create that failed for another reason.
C11_SecondStartHarmless ==
    [][\A p \in Pids :
         (StepOf(p) /\ lpc[p] # "idle" /\ StartedBesideRunning(p))
            => /\ lockFile' = lockFile
               /\ sockFile' = sockFile
               /\ lpc'[p] \notin {"write_pid", "held"}
               /\ lpc'[p] = "exited" => lres'[p] \in {"AlreadyRunning", "Io"}
               /\ lres'[p] = "AlreadyRunning" => RunResult(p)' = "Ok"]_vars

\* ------------------------------------------------------------------------
\* Claims about the selection requests in the daemon (checked under Spec)
\* ------------------------------------------------------------------------

\* the frame that rejects a selection request outside a session
NoSessionFrame == WireResponse(RespError("no active selection session"))

IsSelectionRequest(r) == r.t \in {"SetSelection", "ConfirmSelection"}

\* handle_request and conn.send ran for a SetSelection / ConfirmSelection
\* received while the selection state is Idle
IdleSelectionRejected ==
    (dpc = "handling" /\ IsSelectionRequest(cur_req) /\ selection = Idle /\ dpc' = "loop")
        => /\ sent' = <<NoSessionFrame>>
           /\ notified' = <<>>
           /\ selection' = Idle
           /\ conn' = conn /\ pst' = pst /\ dexit' = dexit

\* the request loop reads the request that follows the rejected one
ReadsAfterRejection ==
    /\ dpc = "loop" /\ IsSelectionRequest(cur_req) /\ sent = <<NoSessionFrame>>
    /\ dpc' # "loop" /\ cur_req' # NoReq

\* C12 (as stated): SetSelection or ConfirmSelection received while the
\* selection state is Idle is answered Error{"no active selection session"}
\* with no event and no state change, and the next request read on the
\* connection is dispatched and answered.
C12_IdleSelectionErrorKeepsConn ==
    [][/\ IdleSelectionRejected
       /\ ReadsAfterRejection => dpc' = "handling"]_vars

\* C12 (amended): as above, except that a next request read after the
\* session watcher has set the shutdown flag is not dispatched: run()
\* returns Ok without answering it.
C12_IdleSelectionErrorKeepsConnUnlessShutdown ==
    [][/\ IdleSelectionRejected
       /\ ReadsAfterRejection
            => \/ dpc' = "handling"
               \/ shutdown_flag /\ dexit' = ExitOk("session")]_vars

\* C12 witness: after a handshake a SetSelection was rejected with the
\* error, the connection is still served and the peer's next request waits
\* in the stream.
C12_Witness ==
    /\ dpc = "loop" /\ first = Hello(IPC_VERSION)
    /\ cur_req = SetSelection("r1") /\ sent = <<NoSessionFrame>>
    /\ selection = Idle /\ conn # 0
    /\ c2s[conn] = <<Plain("Status")>>

\* C29: the daemon services one connection at a time. A connection becomes
\* the current one only when there is no current one; frames are taken only
\* off the current connection; and whenever the daemon writes an answer,
\* every other connection is closed or still waits in the listen queue, so
\* a second client is answered only after the first connection was closed.
C29_OneConnectionAtATime ==
    [][/\ (conn' # conn /\ conn' # 0) => (conn = 0 /\ dpc = "accept")
       /\ \A c \in Peers :
            (dpc' # "exited" /\ c2s[c] # <<>> /\ c2s'[c] = Tail(c2s[c])) => c = conn
       /\ (sent' # sent /\ sent' # <<>>)
            => \A c \in Peers \ {conn} : pst[c] = "open" => InBacklog(c)]_vars

\* C29 witness: the first client's Status was answered and its request loop
\* is still running while the second client, connected and with its Cancel
\* already written, waits unread in the listen queue.
C29_Witness ==
    /\ conn = 1 /\ dpc = "loop" /\ pst[1] = "open"
    /\ cur_req = Plain("Status") /\ WellAnswered(sent)
    /\ backlog = <<2>> /\ pst[2] = "open" /\ c2s[2] = <<Plain("Cancel")>>

\* C30: once the session watcher has set the shutdown flag, run() eventually
\* returns, with no client connected and with a connected client that stays
\* idle alike.
C30_ShutdownTerminates == shutdown_flag ~> (dpc = "exited")

\* ------------------------------------------------------------------------
\* Claims about SelectionState (checked under SpecSelection)
\* ------------------------------------------------------------------------

\* a method of the SelectionState is called in this step, and which one
SelStep == sel_log' # sel_log
SelOp == sel_log'[Len(sel_log')]

\* StartCapture(Region, with_ui = true): the request that starts a session
IsSessionStart(op) == op.t = "StartCapture" /\ op.mode = "Region" /\ op.with_ui

\* the calls made so far end with: a session start, one or more
\* SetSelection, a ConfirmSelection
SessionStartOf(log) ==
    {i \in 1..Len(log) :
        /\ IsSessionStart(log[i])
        /\ Len(log) >= i + 2
        /\ log[Len(log)].t = "ConfirmSelection"
        /\ \A j \in (i + 1)..(Len(log) - 1) : log[j].t = "SetSelection"}

\* C13: in state Active every SetSelection{rect} stores rect (overwriting an
\* earlier one), emits exactly one SelectionPreview with that rect and
\* answers Ok; after a session start, one or more SetSelection and a
\* ConfirmSelection, take_active returns the session with mode Region, the
\* target of the start and the rect of the last SetSelection.
C13_SetSelectionStoresLastRect ==
    [][SelStep =>
        /\ (SelOp.t = "SetSelection" /\ sel_active.active)
              => /\ sel_active' = [sel_active EXCEPT !.rect = SelOp.rect]
                 /\ sel_events' = <<SelectionPreview(SelOp.rect)>>
                 /\ sel_resp' = RespOk
        /\ (SelOp = TakeOp /\ SessionStartOf(sel_log) # {})
              => \A i \in SessionStartOf(sel_log) :
                    sel_taken' = ActiveSelection("Region", sel_log[i].target,
                                                 sel_log[Len(sel_log) - 1].rect)]_vars

\* C13 witness: the rect of the second SetSelection is the one taken.
C13_Witness ==
    /\ sel_log = <<StartCapture("Region", NoTarget, TRUE), SetSelection("r1"),
                   SetSelection("r2"), Plain("ConfirmSelection"), TakeOp>>
    /\ sel_taken = ActiveSelection("Region", NoTarget, "r2")

\* C14: handle_request(ConfirmSelection) never changes the selection state
\* and emits nothing; it answers "no selection rect set" for a session
\* without a rect and Ok for a session with a rect.
C14_ConfirmLeavesState ==
    [][(SelStep /\ SelOp.t = "ConfirmSelection")
          => /\ sel_active' = sel_active
             /\ sel_events' = <<>>
             /\ sel_resp' = IF ~sel_active.active
                             THEN RespError("no active selection session")
                             ELSE IF sel_active.rect = NoRect
                                  THEN RespError("no selection rect set")
                                  ELSE RespOk]_vars

\* C14 witness: a confirm was accepted and the session is still there.
C14_Witness ==
    /\ sel_log = <<StartCapture("Region", OutputName("DP-1"), TRUE), SetSelection("r1"),
                   Plain("ConfirmSelection")>>
    /\ sel_resp = RespOk
    /\ sel_active = ActiveSelection("Region", OutputName("DP-1"), "r1")

\* C15: take_active hands the session out and leaves the state Idle; from
\* Idle every take_active returns None, SetSelection and ConfirmSelection
\* are answered "no active selection session", and the state stays Idle
\* until a StartCapture(Region, with_ui = true); a take_active that returns
\* a session is preceded by a session start made after the previous
\* take_active.
C15_TakeActiveOnce ==
    [][SelStep =>
        /\ SelOp = TakeOp => (sel_active' = Idle /\ sel_taken' = sel_active)
        /\ (SelOp = TakeOp /\ sel_active.active)
              => \E i \in 1..Len(sel_log) :
                    /\ IsSessionStart(sel_log[i])
                    /\ \A j \in (i + 1)..Len(sel_log) : sel_log[j] # TakeOp
        /\ (sel_active = Idle /\ SelOp.t \in {"SetSelection", "ConfirmSelection"})
              => sel_resp' = RespError("no active selection session")
        /\ (sel_active = Idle /\ ~(SelOp.t = "StartCapture" /\ IsSessionStart(SelOp)))
              => sel_active' = Idle]_vars

\* C15 witness: the session was taken; the second take_active returned None.
C15_Witness ==
    /\ sel_log = <<StartCapture("Region", NoTarget, TRUE), SetSelection("r1"),
                   Plain("ConfirmSelection"), TakeOp, TakeOp>>
    /\ sel_taken = Idle /\ sel_active = Idle

\* the calls made on the current connection: those after the last accept
SinceAccept(log) ==
    LET acc == {i \in 1..Len(log) : log[i] = AcceptOp}
        last == IF acc = {} THEN 0 ELSE CHOOSE i \in acc : \A j \in acc : j <= i
    IN SubSeq(log, last + 1, Len(log))

\* no session was started on the current connection
NoSessionStarted(log) ==
    \A i \in 1..Len(SinceAccept(log)) :
        LET op == SinceAccept(log)[i] IN op.t = "StartCapture" => ~IsSessionStart(op)

\* C31: selection state is per connection. The SelectionState of an accepted
\* connection is Idle whatever the one before held, and until a session is
\* started on the connection itself SetSelection and ConfirmSelection are
\* refused with "no active selection session" without an event and
\* take_active returns None.
C31_SelectionPerConnection ==
    [][SelStep =>
        /\ SelOp = AcceptOp => sel_active' = Idle
        /\ NoSessionStarted(sel_log) =>
             /\ SelOp.t \in {"SetSelection", "ConfirmSelection"}
                   => /\ sel_resp' = RespError("no active selection session")
                      /\ sel_events' = <<>>
                      /\ sel_active' = Idle
             /\ SelOp = TakeOp => (sel_taken' = Idle /\ sel_active' = Idle)]_vars

\* C31 witness: the first connection ended with its session Active and a
\* rectangle set; ConfirmSelection on the next connection found no session.
C31_Witness ==
    /\ sel_log = <<StartCapture("Region", NoTarget, TRUE), SetSelection("r1"), AcceptOp,
                   Plain("ConfirmSelection")>>
    /\ sel_resp = RespError("no active selection session")
    /\ sel_active = Idle

\* ------------------------------------------------------------------------
\* Claims about the dispatch of requests (checked under SpecDispatch)
\* ------------------------------------------------------------------------

\* the events among the frames written for the request
WireEvents == EventsIn(h_wire)

\* the CaptureFailed events among them that report a failure (not the
\* "cancelled" sentinel)
FailureEvents ==
    {i \in 1..Len(WireEvents) :
        WireEvents[i].t = "CaptureFailed" /\ WireEvents[i].message # "cancelled"}

CaptureFailure ==
    /\ h_req.t = "StartCapture"
    /\ ~h_res.user_cancel
    /\ \A i \in 1..Len(WireEvents) : WireEvents[i].t # "CaptureFinished"

\* C18: every capture failure is reported by exactly one CaptureFailed event
\* followed by the Error Response with the same message, and active_job is
\* None when the handler returns; a CaptureFailed event that is not the
\* "cancelled" sentinel is never followed by another answer.
C18_FailureReportedTwice ==
    (h_pc \in {"answered", "returned"} /\ (CaptureFailure \/ FailureEvents # {}))
        => /\ Cardinality({i \in 1..Len(WireEvents) : WireEvents[i].t = "CaptureFailed"}) = 1
           /\ Len(h_wire) >= 2
           /\ h_wire[Len(h_wire) - 1].wire = "Event"
           /\ h_wire[Len(h_wire) - 1].body.t = "CaptureFailed"
           /\ h_wire[Len(h_wire)] =
                WireResponse(RespError(h_wire[Len(h_wire) - 1].body.message))
           /\ h_job = NoJob

\* C18 witness: an unknown output name was reported by the event and by the
\* Error response.
C18_Witness ==
    /\ h_pc = "answered"
    /\ h_req = StartCapture("Region", OutputName("X-9"), TRUE)
    /\ h_outs = <<"DP-1">>
    /\ h_wire = <<WireEvent(CaptureStarted("Region")),
                  WireEvent(CaptureFailed("unknown output. Available")),
                  WireResponse(RespError("unknown output. Available"))>>
    /\ h_job = NoJob

\* C19: start_capture returns Cancelled exactly when the overlay was
\* cancelled by the user, and an error for every capture failure; the daemon
\* sends CaptureFailed{"cancelled"} with an Ok Response and no notification
\* only for a user cancellation.
C19_CancelledOnlyOnUserCancel ==
    (h_pc = "returned")
        => /\ (b_out = Cancelled) <=> h_res.user_cancel
           /\ CaptureFailure => b_out.t = "Err"
           /\ (\E i \in 1..Len(WireEvents) : WireEvents[i] = CaptureFailed("cancelled"))
                 => (h_res.user_cancel /\ h_res.resp = RespOk /\ h_res.notes = <<>>)

\* the frame is a CaptureFinished or CaptureFailed event
TerminalFrame(f) ==
    f.wire = "Event" /\ f.body.t \in {"CaptureFinished", "CaptureFailed"}

\* C35: for every outcome of a StartCapture, an Ok Response is written after
\* a CaptureFinished or CaptureFailed event of the same request, the event is
\* among those call has buffered when it returns, and start_capture returns
\* (it never waits for a frame that does not come).
C35_StartCaptureTerminates ==
    (h_pc \in {"answered", "returned"} /\ h_req.t = "StartCapture")
        => /\ h_wire[Len(h_wire)] = WireResponse(RespOk)
                => /\ \E i \in 1..(Len(h_wire) - 1) : TerminalFrame(h_wire[i])
                   /\ LET pending == CallScan(h_wire, <<>>).pending
                      IN \E i \in 1..Len(pending) :
                            pending[i].t \in {"CaptureFinished", "CaptureFailed"}
           /\ h_pc = "returned" => b_out # Blocked

\* C35 witness: a region capture cancelled in the overlay was answered Ok
\* after the "cancelled" event and start_capture returned Cancelled.
C35_Witness ==
    /\ h_pc = "returned"
    /\ h_req.t = "StartCapture"
    /\ h_req.mode = "Region"
    /\ h_wire = <<WireEvent(CaptureStarted("Region")), WireEvent(CaptureFailed("cancelled")),
                  WireResponse(RespOk)>>
    /\ b_out = Cancelled

\* C36: while the daemon waits for the next request active_job is None, and
\* every Status Response carries active_job = None.
C36_NoJobBetweenRequests ==
    /\ h_pc \in {"ready", "handling", "answered", "returned"} => h_job = "None"
    /\ (h_res # NoRes /\ h_res.resp.t = "Status") => h_res.resp.active_job = "None"

\* C36 witness: the second request on the connection was a Status and its
\* answer, written after an earlier request had been handled, carries None.
C36_Witness ==
    /\ h_pc = "answered"
    /\ h_n = 2
    /\ h_req = Plain("Status")
    /\ h_wire = <<WireResponse(RespStatus("None"))>>
    /\ h_job = "None"

\* ========================================================================
\* Claims about framing (SpecFraming)
\* ========================================================================
\* a step in which read_frame was called on the stream
ReadStep ==
    /\ f_last'.op = "read"
    /\ f_eof' = f_eof
    /\ <<f_stream, f_last>>' # <<f_stream, f_last>>

\* the payload of the frame at the head of the stream
NextWritten == f_written[Len(f_read) + 1]

\* C20: read_frame on what write_frame wrote returns the payload exactly
\* whenever max_len is at least its length, and with several frames written
\* back to back on one stream the successive reads return the payloads in
\* the order written, each with its own boundaries.
C20_FrameRoundTrip ==
    [][(ReadStep /\ Len(f_read) < Len(f_written)
                 /\ f_last'.max_len >= Len(NextWritten)) =>
          /\ f_last'.ok
          /\ f_read' = Append(f_read, NextWritten)
          /\ (Len(f_read') = Len(f_written) /\ ~f_eof => f_stream' = <<>>)]_vars

\* two different frames, the first not empty, written back to back and both
\* read back
C20_Witness ==
    /\ Len(f_written) >= 2
    /\ f_read = f_written
    /\ Len(f_written[1]) >= 1
    /\ f_written[1] # f_written[2]
    /\ f_last.op = "read"
    /\ f_stream = <<>>

\* the length declared by the prefix at the head of the stream
DeclaredLen == FromLeBytes(SubSeq(f_stream, 1, LenBytes))

\* C21: when the length prefix declares more than max_len, read_frame fails
\* with FrameTooLarge and has taken exactly the 4 prefix bytes off the
\* stream: every byte after the prefix is still there and nothing is
\* returned.
C21_TooLargeConsumesPrefixOnly ==
    [][(ReadStep /\ Len(f_stream) >= LenBytes /\ DeclaredLen > f_last'.max_len) =>
          /\ ~f_last'.ok
          /\ f_last'.err = "FrameTooLarge"
          /\ f_stream' = SubSeq(f_stream, LenBytes + 1, Len(f_stream))
          /\ f_read' = f_read]_vars

\* a frame was read, then a frame of one byte was refused with max_len 0:
\* its payload byte is still on the stream
C21_Witness ==
    /\ f_last = [op |-> "read", ok |-> FALSE, err |-> "FrameTooLarge", max_len |-> 0,
                 taken |-> LenBytes]
    /\ Len(f_written) >= 2
    /\ Len(f_read) = 1
    /\ Len(f_written[2]) = 1
    /\ Len(f_stream) >= 1
    /\ SubSeq(f_stream, 1, 1) = f_written[2]

\* the stream ends before the frame at its head is complete: inside the
\* prefix or inside the declared payload
EndsShort ==
    \/ Len(f_stream) < LenBytes
    \/ Len(f_stream) - LenBytes < DeclaredLen

\* the read stops at the prefix: it declares more than max_len
StopsAtPrefix(max_len) == Len(f_stream) >= LenBytes /\ DeclaredLen > max_len

\* after an I/O error the stream is not read or written again
NoUseAfterIoError ==
    (f_last.op = "read" /\ f_last.err = "Io") => frameVars' = frameVars

\* C22 as stated: read_frame on a stream that ends inside the 4 length bytes
\* or before the declared number of payload bytes fails with an I/O error
\* and returns no payload, and the stream is not read again after that
\* error.
C22_ShortStreamAlwaysIo ==
    [][/\ (ReadStep /\ EndsShort) =>
             /\ ~f_last'.ok
             /\ f_last'.err = "Io"
             /\ f_read' = f_read
       /\ NoUseAfterIoError]_vars

\* C22: read_frame on a stream that ends inside the 4 length bytes, or
\* inside a declared payload of at most max_len bytes, fails with an I/O
\* error and returns no payload (a prefix that declares more than max_len
\* fails with FrameTooLarge before the payload is looked at), and the stream
\* is not read again after the error: the caller gives the connection up,
\* nothing is resynchronised to a later frame.
C22_ShortReadFatal ==
    [][/\ (ReadStep /\ EndsShort /\ ~StopsAtPrefix(f_last'.max_len)) =>
             /\ ~f_last'.ok
             /\ f_last'.err = "Io"
             /\ f_read' = f_read
       /\ (ReadStep /\ EndsShort) => (~f_last'.ok /\ f_read' = f_read)
       /\ NoUseAfterIoError]_vars

\* one frame was read whole, then the stream ended after the length prefix
\* of the next one, before its body, and the read failed
C22_Witness ==
    /\ f_eof
    /\ Len(f_read) = 1
    /\ f_last.op = "read"
    /\ f_last.err = "Io"
    /\ f_last.taken = LenBytes

\* ========================================================================
\* Claims about the message encoding (SpecCodec)
\* ========================================================================
\* C23: deserialising the bytes produced by serialising a Request, a
\* Response or an Event gives back a value equal to the original, and a
\* server-to-client message written as Wire::Response is not read as
\* Wire::Event, nor the reverse.
C23_CodecRoundTrip ==
    c_dec.called =>
        /\ c_dec.ok
        /\ c_dec.v = c_msg.val
        /\ c_msg.dir = "s2c" => c_dec.v.wire = c_msg.val.wire

\* an Event with a negative coordinate and a two-byte varint went through
\* the envelope and came back
C23_Witness ==
    /\ c_msg.dir = "s2c"
    /\ c_msg.val = WireEvent(SelectionPreview([x |-> -3, y |-> 70, w |-> 200, h |-> 100]))
    /\ c_bytes = <<1, 3, 5, 140, 1, 144, 3, 200, 1>>
    /\ c_dec.ok
    /\ c_dec.v = c_msg.val

\* ========================================================================
\* Claims about the overlay geometry (SpecGeometry)
\* ========================================================================
\* the rectangle is at least the minimum size and lies within the bounds
WithinBounds(r, b) ==
    /\ r.w >= MIN_W
    /\ r.h >= MIN_H
    /\ b.min_x <= r.x
    /\ b.min_y <= r.y
    /\ r.x + r.w <= b.max_x
    /\ r.y + r.h <= b.max_y

PointWithin(p, b) ==
    /\ b.min_x <= p[1] /\ p[1] <= b.max_x
    /\ b.min_y <= p[2] /\ p[2] <= b.max_y

\* C24 as stated: whatever the drag mode, the cursor position and the grab
\* snapshot, the rectangle apply_drag returns is at least MIN_W by MIN_H and
\* lies within the bounds.
C24_DragAlwaysWithinBounds ==
    g_last.op = "apply_drag" => WithinBounds(g_last.out, g_bounds)

\* C24: when the grab snapshot is itself at least MIN_W by MIN_H and within
\* the bounds, and the cursor of a Resize lies within the bounds, the
\* rectangle apply_drag returns is at least MIN_W by MIN_H and lies within
\* the bounds.
C24_DragWithinBounds ==
    (/\ g_last.op = "apply_drag"
     /\ WithinBounds(g_last.grab_rect, g_bounds)
     /\ g_last.mode.kind = "Resize" => PointWithin(g_last.cursor, g_bounds))
        => WithinBounds(g_last.out, g_bounds)

\* a Move that pushed a rectangle within the bounds against the right bound
C24_Witness ==
    /\ g_last.op = "apply_drag"
    /\ g_last.mode.kind = "Move"
    /\ WithinBounds(g_last.grab_rect, g_bounds)
    /\ g_last.grab_rect.x + (g_last.cursor[1] - g_last.grab_cursor[1])
         + g_last.grab_rect.w > g_bounds.max_x
    /\ g_last.out.x + g_last.out.w = g_bounds.max_x
    /\ WithinBounds(g_last.out, g_bounds)

\* C25: clamp_to is idempotent: applying it a second time with the same
\* bounds gives the rectangle the first application gave.
C25_ClampIdempotent ==
    (g_last.op = "clamp_to" /\ g_last.n = 2) => g_last.out = g_last.arg

\* a rectangle narrower than MIN_W that stuck out of the bounds was clamped
\* twice
C25_Witness ==
    /\ g_last.op = "clamp_to"
    /\ g_last.n = 2
    /\ g_rect.w < MIN_W
    /\ ~WithinBounds(g_rect, g_bounds)
    /\ g_last.arg # g_rect
    /\ g_last.out = g_last.arg

\* the point is strictly inside r, farther than HANDLE_HIT from each edge
\* and farther than the corner radius from each corner
DeepInside(r, px, py) ==
    /\ r.x < px /\ px < r.x + r.w
    /\ r.y < py /\ py < r.y + r.h
    /\ px - r.x > HANDLE_HIT /\ (r.x + r.w) - px > HANDLE_HIT
    /\ py - r.y > HANDLE_HIT /\ (r.y + r.h) - py > HANDLE_HIT
    /\ \A i \in 1..4 : CornerDist(r, px, py)[i] > CornerRadius * CornerRadius

\* C26: hit_test returns Move for every point strictly inside the
\* rectangle, farther than HANDLE_HIT from each of the four edges and
\* farther than max(HANDLE_HIT, HANDLE_SIZE / 2) from each of the corners.
C26_HitTestMoveInside ==
    (g_last.op = "hit_test" /\ DeepInside(g_rect, g_last.px, g_last.py))
        => g_last.out = DragMove

\* a point 15 from the left and top edges of a 100 by 80 rectangle
C26_Witness ==
    /\ g_last.op = "hit_test"
    /\ g_rect = RectLocal(10, 10, 100, 80)
    /\ g_last.px = 25
    /\ g_last.py = 25
    /\ DeepInside(g_rect, g_last.px, g_last.py)
    /\ g_last.out = DragMove

\* the edges the claim describes: a flagged edge is the cursor coordinate, an
\* unflagged one the grab rectangle's, the pair in ascending order
ClaimedEdges(dir, cursor, grab_rect) ==
    LET l == IF dir.left THEN cursor[1] ELSE grab_rect.x
        r == IF dir.right THEN cursor[1] ELSE grab_rect.x + grab_rect.w
        t == IF dir.top THEN cursor[2] ELSE grab_rect.y
        b == IF dir.bottom THEN cursor[2] ELSE grab_rect.y + grab_rect.h
    IN [left |-> MinOf(l, r), right |-> MaxOf(l, r),
        top |-> MinOf(t, b), bottom |-> MaxOf(t, b)]

\* C27: a Resize drag replaces each flagged edge by the cursor coordinate and
\* keeps the unflagged edges of grab_rect, swapping left/right and
\* top/bottom when inverted; the result is that rectangle, raised to the
\* minimum size and clamped, and it does not depend on grab_cursor.
C27_ResizeAbsoluteCursor ==
    (g_last.op = "apply_drag" /\ g_last.mode.kind = "Resize") =>
        LET e == ClaimedEdges(g_last.mode.dir, g_last.cursor, g_last.grab_rect)
            pre == RectLocal(e.left, e.top, MaxOf(e.right - e.left, MIN_W),
                             MaxOf(e.bottom - e.top, MIN_H))
        IN /\ g_last.out = ClampTo(pre, g_bounds)
           /\ \A gc \in GeoPoints \cup GrabCursors :
                 ApplyDrag(g_last.mode, g_last.cursor, gc, g_last.grab_rect, g_bounds)
                     = g_last.out

\* the example of the claim, with a grab cursor away from the handle
C27_Witness ==
    /\ g_last.op = "apply_drag"
    /\ g_last.mode = DragResize(ResizeDir(FALSE, TRUE, FALSE, TRUE))
    /\ g_last.grab_rect = RectLocal(10, 10, 100, 80)
    /\ g_last.cursor = <<150, 130>>
    /\ g_last.grab_cursor = <<0, 0>>
    /\ g_bounds = BoundsOf(0, 0, 200, 160)
    /\ g_last.out = RectLocal(10, 10, 140, 120)

\* the flags of the four corners as the claims give them: top-left,
\* top-right, bottom-left, bottom-right
ClaimedCornerFlags ==
    <<[left |-> TRUE, right |-> FALSE, top |-> TRUE, bottom |-> FALSE],
      [left |-> FALSE, right |-> TRUE, top |-> TRUE, bottom |-> FALSE],
      [left |-> TRUE, right |-> FALSE, top |-> FALSE, bottom |-> TRUE],
      [left |-> FALSE, right |-> TRUE, top |-> FALSE, bottom |-> TRUE]>>

\* the squared distances from the point to the same four corners
ClaimedCornerDist(r, px, py) ==
    <<(px - r.x) * (px - r.x) + (py - r.y) * (py - r.y),
      (px - (r.x + r.w)) * (px - (r.x + r.w)) + (py - r.y) * (py - r.y),
      (px - r.x) * (px - r.x) + (py - (r.y + r.h)) * (py - (r.y + r.h)),
      (px - (r.x + r.w)) * (px - (r.x + r.w)) + (py - (r.y + r.h)) * (py - (r.y + r.h))>>

\* the corners nearest to the point
NearestCorners(r, px, py) ==
    LET d == ClaimedCornerDist(r, px, py)
    IN {i \in 1..4 : \A j \in 1..4 : d[i] <= d[j]}

\* the nearest corner lies within the radius max(HANDLE_HIT, HANDLE_SIZE / 2)
CornerInReach(r, px, py) ==
    LET rad == IF HANDLE_HIT >= HANDLE_SIZE \div 2 THEN HANDLE_HIT ELSE HANDLE_SIZE \div 2
    IN \E i \in NearestCorners(r, px, py) : ClaimedCornerDist(r, px, py)[i] <= rad * rad

\* the point lies in the band of an edge
InEdgeBand(r, px, py) ==
    LET alongY == py >= r.y - HANDLE_HIT /\ py <= r.y + r.h + HANDLE_HIT
        alongX == px >= r.x - HANDLE_HIT /\ px <= r.x + r.w + HANDLE_HIT
    IN \/ (AbsOf(px - r.x) <= HANDLE_HIT /\ alongY)
       \/ (AbsOf(px - (r.x + r.w)) <= HANDLE_HIT /\ alongY)
       \/ (AbsOf(py - r.y) <= HANDLE_HIT /\ alongX)
       \/ (AbsOf(py - (r.y + r.h)) <= HANDLE_HIT /\ alongX)

\* C32: corner priority. When the corner nearest to the point is within the
\* radius max(HANDLE_HIT, HANDLE_SIZE / 2), hit_test returns Resize with
\* exactly the two flags of that corner (of a nearest corner, when several
\* are equally near), also when the point lies in edge bands or inside r.
C32_CornerPriority ==
    (g_last.op = "hit_test" /\ CornerInReach(g_rect, g_last.px, g_last.py))
        => /\ g_last.out.kind = "Resize"
           /\ \E i \in NearestCorners(g_rect, g_last.px, g_last.py) :
                 g_last.out.dir = ClaimedCornerFlags[i]

\* a point inside an 8 by 8 rectangle, in the bands of all four edges and
\* nearest to the bottom-right corner
C32_Witness ==
    /\ g_last.op = "hit_test"
    /\ g_rect = RectLocal(0, 0, 8, 8)
    /\ g_last.px = 5 /\ g_last.py = 5
    /\ Contains(g_rect, g_last.px, g_last.py)
    /\ InEdgeBand(g_rect, g_last.px, g_last.py)
    /\ g_last.out = DragResize(ResizeDir(FALSE, TRUE, FALSE, TRUE))

\* C33: hit_test never returns None and never Resize without a flag; for a
\* point outside r that is within reach of no corner and in no edge band it
\* returns Resize toward a corner with the smallest squared distance.
C33_HitTestAlwaysDrags ==
    g_last.op = "hit_test" =>
        /\ g_last.out.kind \in {"Move", "Resize"}
        /\ g_last.out.kind = "Resize" =>
              (g_last.out.dir.left \/ g_last.out.dir.right
                 \/ g_last.out.dir.top \/ g_last.out.dir.bottom)
        /\ (/\ ~Contains(g_rect, g_last.px, g_last.py)
            /\ ~CornerInReach(g_rect, g_last.px, g_last.py)
            /\ ~InEdgeBand(g_rect, g_last.px, g_last.py))
              => /\ g_last.out.kind = "Resize"
                 /\ \E i \in NearestCorners(g_rect, g_last.px, g_last.py) :
                       g_last.out.dir = ClaimedCornerFlags[i]

\* a point far below and to the right of the rectangle: bottom-right
C33_Witness ==
    /\ g_last.op = "hit_test"
    /\ g_rect = RectLocal(10, 10, 100, 80)
    /\ g_last.px = 230 /\ g_last.py = 200
    /\ ~InEdgeBand(g_rect, g_last.px, g_last.py)
    /\ ~CornerInReach(g_rect, g_last.px, g_last.py)
    /\ g_last.out = DragResize(ResizeDir(FALSE, TRUE, FALSE, TRUE))

\* C34: a Move drag returns grab_rect translated by cursor - grab_cursor and
\* then clamped, its w and h those of grab_rect when they meet the minimums;
\* a None drag returns grab_rect as it is.
C34_MoveTranslatesNoneKeeps ==
    g_last.op = "apply_drag" =>
        /\ g_last.mode.kind = "Move" =>
             LET moved == RectLocal(
                     g_last.grab_rect.x + (g_last.cursor[1] - g_last.grab_cursor[1]),
                     g_last.grab_rect.y + (g_last.cursor[2] - g_last.grab_cursor[2]),
                     g_last.grab_rect.w, g_last.grab_rect.h)
             IN /\ g_last.out = ClampTo(moved, g_bounds)
                /\ g_last.grab_rect.w >= MIN_W => g_last.out.w = g_last.grab_rect.w
                /\ g_last.grab_rect.h >= MIN_H => g_last.out.h = g_last.grab_rect.h
        /\ g_last.mode.kind = "None" => g_last.out = g_last.grab_rect

\* a None drag of a rectangle that sticks out of the bounds left it there
C34_Witness ==
    /\ g_last.op = "apply_drag"
    /\ g_last.mode.kind = "None"
    /\ ~WithinBounds(g_last.grab_rect, g_bounds)
    /\ g_last.cursor # g_last.grab_cursor
    /\ g_last.out = g_last.grab_rect

\* C38: for a rectangle with w >= MIN_W and h >= MIN_H and any point, the
\* ResizeDir hit_test returns never has left and right set together, nor top
\* and bottom.
C38_NoOppositeEdges ==
    (/\ g_last.op = "hit_test"
     /\ g_rect.w >= MIN_W /\ g_rect.h >= MIN_H
     /\ g_last.out.kind = "Resize")
        => /\ ~(g_last.out.dir.left /\ g_last.out.dir.right)
           /\ ~(g_last.out.dir.top /\ g_last.out.dir.bottom)

\* ------------------------------------------------------------------------
\* Claims about the event loop of the region overlay (checked under
\* SpecOverlay)
\* ------------------------------------------------------------------------

\* C39: once Enter, Escape or Closed has set the result, no event dispatched
\* before the event loop exits changes it.
C39_ResultFinal ==
    [][o_app.result # NoResult => o_app'.result = o_app.result]_vars

\* every configured surface shows the selection
ShowsSelection(app) ==
    \A i \in SurfaceIds : app.surfaces[i].configured
        => (app.surfaces[i].drawn = app.selection /\ app.surfaces[i].busy)

\* C40: a redraw that is due is either still pending or has been performed
\* with the latest selection; a buffer that is busy is not drawn into or
\* attached again; and the Release that leaves no buffer busy while a redraw
\* is pending performs the redraw.
C40_RedrawNeverLost ==
    [][o_n' = o_n + 1 =>
        /\ o_app'.pending_redraw
              \/ \A i \in SurfaceIds : o_app'.surfaces[i].configured
                    => o_app'.surfaces[i].drawn = o_app'.selection
        /\ \A i \in SurfaceIds :
              (/\ o_app.surfaces[i].busy
               /\ o_app'.surfaces[i].buf = o_app.surfaces[i].buf
               /\ ~(o_last'.t = "Release" /\ o_last'.idx = i
                      /\ o_last'.buf = o_app.surfaces[i].buf))
                 => /\ o_app'.surfaces[i].drawn = o_app.surfaces[i].drawn
                    /\ o_app'.surfaces[i].busy
        /\ (/\ o_last'.t = "Release"
            /\ o_app.pending_redraw
            /\ \A j \in SurfaceIds : o_app.surfaces[j].busy
                  => (j = o_last'.idx /\ o_app.surfaces[j].buf = o_last'.buf))
              => (~o_app'.pending_redraw /\ ShowsSelection(o_app'))]_vars

\* C40 witness: the selection was dragged while the buffer was busy, the
\* redraw stayed pending, and the Release of the buffer drew the dragged
\* selection.
C40_Witness ==
    /\ o_last.t = "Release"
    /\ o_last.pending
    /\ ~o_app.pending_redraw
    /\ o_app.selection # AppNew.selection
    /\ \E i \in SurfaceIds : o_app.surfaces[i].configured
    /\ ShowsSelection(o_app)
====
